---------------------------- MODULE Spec2Model ----------------------------
(***************************************************************************)
(* A model of the game server in src/server.js: the round / reveal state   *)
(* machine, the rate-limited chat judge, the poll engine and the viewer    *)
(* store.  Every handler of the single-threaded event loop is one action.  *)
(*                                                                         *)
(* Strings are sequences of UTF-16 code units; a code unit is named by a   *)
(* short ASCII string ("c", "C", "e_acute", "HAN", ...).                   *)
(***************************************************************************)
EXTENDS Integers, Sequences, FiniteSets, TLC

---------------------------------------------------------------------------
(* Bounds of the model                                                     *)

\* Date.now() when the first event is handled (ms since the epoch).
T0 == 100000

\* Pending poll auto-close timers kept by the model at one time.
MaxTimers == 2

\* The instants (offsets from T0) at which events are handled.  They put
\* gaps of 200, 500, 700, 59800, 60000 and 60500 ms between events: below,
\* at and above the 700 ms and the 60000 ms windows.
Offsets == {0, 500, 700, 60500}

Times == {T0 + d : d \in Offsets}

\* Viewer identities (userId of a chat event) and their nicknames.
UserIds == {"alice", "bob"}

---------------------------------------------------------------------------
(* Program constants                                                       *)

winnerHighlightMs == 60000

RateLimitMs == 700

DefaultRoundMs == 20000

DefaultPollMs == 20000

CLASSIC == <<"c", "l", "a", "s", "s", "i", "c">>

RAPID == <<"r", "a", "p", "i", "d">>

---------------------------------------------------------------------------
(* Text: code units and normalize()                                        *)

LowerLetters == {"a", "c", "d", "e", "i", "l", "o", "p", "r", "s", "t", "x"}

UpperLetters == {"A", "C", "T"}

\* Conjoining Hangul jamo (U+1112, U+1161, U+11AB): letters (category Lo).
Jamo == {"jH", "jA", "jN"}

Digits == {"0", "1", "2", "3", "9"}

\* String.prototype.normalize("NFD") on one code unit: a precomposed
\* accented letter becomes base + combining mark, a precomposed Hangul
\* syllable becomes its conjoining jamo, everything else is unchanged.
Decompose(ch) ==
    CASE ch = "e_acute" -> <<"e", "acute">>
      [] ch = "HAN"     -> <<"jH", "jA", "jN">>
      [] ch = "HA"      -> <<"jH", "jA">>
      [] OTHER          -> <<ch>>

RECURSIVE NFD(_)
NFD(s) == IF s = <<>> THEN <<>> ELSE Decompose(Head(s)) \o NFD(Tail(s))

\* \p{M}
IsMark(ch) == ch = "acute"

\* \s
IsSpace(ch) == ch = " "

\* [\p{L}\p{N}\s]
IsLetterNumberSpace(ch) ==
    \/ ch \in LowerLetters \cup UpperLetters \cup Jamo \cup {"e_acute", "HAN", "HA"}
    \/ ch \in Digits
    \/ IsSpace(ch)

NotMark(ch) == ~IsMark(ch)

ToLowerCaseUnit(ch) ==
    CASE ch = "A" -> "a"
      [] ch = "C" -> "c"
      [] ch = "T" -> "t"
      [] OTHER    -> ch

ToLowerCase(s) == [i \in 1..Len(s) |-> ToLowerCaseUnit(s[i])]

RECURSIVE TrimStart(_)
TrimStart(s) ==
    IF s # <<>> /\ IsSpace(Head(s)) THEN TrimStart(Tail(s)) ELSE s

RECURSIVE TrimEnd(_)
TrimEnd(s) ==
    IF s # <<>> /\ IsSpace(s[Len(s)])
    THEN TrimEnd(SubSeq(s, 1, Len(s) - 1))
    ELSE s

Trim(s) == TrimEnd(TrimStart(s))

\* normalize(txt): NFD, drop marks, drop everything that is not a letter, a
\* number or whitespace, lowercase, trim.
normalize(txt) ==
    IF txt = <<>> THEN <<>>
    ELSE Trim(ToLowerCase(SelectSeq(SelectSeq(NFD(txt), NotMark),
                                    IsLetterNumberSpace)))

---------------------------------------------------------------------------
(* State                                                                   *)

VARIABLES
    now,               \* Date.now()
    isRunning,         \* reading enabled
    secretWordRaw,     \* "" when no secret
    secretWordNorm,
    winner,            \* <<>> (null) or <<record>>
    lastWinAt,
    roundStartedAt,    \* 0 stands for null: the code only tests truthiness
    roundDurationMs,
    revealedPositions, \* sequence of BOOLEAN; a hole reads as FALSE
    users,             \* viewer records in insertion order
    gameMode,
    pollState,         \* <<>> (null) or <<record>>
    pollTimers,        \* due times of the pending setTimeout(endPoll) calls
    userLastMsgAt,     \* Map userId -> ms, 0 when absent (".get(id) || 0")
    ttConnection,      \* 0 (null) or the index in sessions of the connection
    connectedRoom,     \* <<>> (null) or <<room>>
    sessions,          \* every WebcastPushConnection created so far
    echoAt,            \* history: ts of the last chat echo of each viewer
    ev,                \* the event handled by the last step
    res,               \* its HTTP status (0: not an HTTP request)
    out                \* the broadcasts it emitted, in order

vars == <<now, isRunning, secretWordRaw, secretWordNorm, winner, lastWinAt,
          roundStartedAt, roundDurationMs, revealedPositions, users,
          gameMode, pollState, pollTimers, userLastMsgAt, ttConnection,
          connectedRoom, sessions, echoAt, ev, res, out>>

roundVars == <<isRunning, secretWordRaw, secretWordNorm, winner, lastWinAt,
               roundStartedAt, roundDurationMs, revealedPositions>>

pollVars == <<pollState, pollTimers>>

connVars == <<ttConnection, connectedRoom, sessions>>

Init ==
    /\ now = T0
    /\ isRunning = FALSE
    /\ secretWordRaw = <<>>
    /\ secretWordNorm = <<>>
    /\ winner = <<>>
    /\ lastWinAt = 0
    /\ roundStartedAt = 0
    /\ roundDurationMs = DefaultRoundMs
    /\ revealedPositions = <<>>
    /\ users = <<>>
    /\ gameMode = CLASSIC
    /\ pollState = <<>>
    /\ pollTimers = <<>>
    /\ userLastMsgAt = [u \in UserIds |-> 0]
    /\ ttConnection = 0
    /\ connectedRoom = <<>>
    /\ sessions = <<>>
    /\ echoAt = [u \in UserIds |-> 0]
    /\ ev = [op |-> "init"]
    /\ res = 0
    /\ out = <<>>

---------------------------------------------------------------------------
(* Reveal / mask engine                                                    *)

\* revealedPositions[i], i 0-based, as the code reads it: only for its
\* truthiness, so a hole or an index past the end reads as FALSE.
Revealed(rev, i) == i + 1 <= Len(rev) /\ rev[i + 1]

\* revealedPositions[i] = true, i 0-based: a JavaScript array grows when i
\* is at or past its length, leaving holes below i.
SetRevealed(rev, i) ==
    IF i + 1 <= Len(rev)
    THEN [rev EXCEPT ![i + 1] = TRUE]
    ELSE [k \in 1..(i + 1) |-> IF k = i + 1 THEN TRUE ELSE Revealed(rev, k - 1)]

\* new Array(n).fill(b)
Filled(n, b) == [k \in 1..n |-> b]

\* The mask that shows no character whatever the reveal state.
MaskOfHidden(raw, rev) == [k \in 1..Len(raw) |-> "_"]

MaskOf(raw, rev) ==
    IF raw = <<>> THEN <<>>
    ELSE [k \in 1..Len(raw) |-> IF Revealed(rev, k - 1) THEN raw[k] ELSE "_"]

getMaskedWord == MaskOf(secretWordRaw, revealedPositions)

\* The rapid-mode loop: for (i = 0; i < maxLen; i++) if (guess[i] ===
\* secret[i]) revealedPositions[i] = true.
RECURSIVE LockLoop(_, _, _, _, _)
LockLoop(rev, i, maxLen, guessNorm, secretNorm) ==
    IF i >= maxLen THEN rev
    ELSE LockLoop(IF guessNorm[i + 1] = secretNorm[i + 1]
                  THEN SetRevealed(rev, i) ELSE rev,
                  i + 1, maxLen, guessNorm, secretNorm)

Min(a, b) == IF a < b THEN a ELSE b

\* Mutant: the loop started at index 1.
PositionLockFromOne(rev, guessNorm, secretNorm) ==
    LockLoop(rev, 1, Min(Len(secretNorm), Len(guessNorm)), guessNorm, secretNorm)

\* Mutant: the lock shows only what this guess matched.
PositionLockAfresh(rev, guessNorm, secretNorm) ==
    LockLoop(Filled(Len(rev), FALSE), 0,
             Min(Len(secretNorm), Len(guessNorm)), guessNorm, secretNorm)

PositionLock(rev, guessNorm, secretNorm) ==
    LockLoop(rev, 0, Min(Len(secretNorm), Len(guessNorm)), guessNorm, secretNorm)

---------------------------------------------------------------------------
(* Viewer store                                                            *)

\* The thresholds one win late.
computeTierLate(winsTotal) ==
    IF winsTotal >= 4 THEN "platinum"
    ELSE IF winsTotal >= 3 THEN "gold"
    ELSE IF winsTotal >= 2 THEN "red"
    ELSE "none"

computeTier(winsTotal) ==
    IF winsTotal >= 3 THEN "platinum"
    ELSE IF winsTotal >= 2 THEN "gold"
    ELSE IF winsTotal >= 1 THEN "red"
    ELSE "none"

\* Index of the record of userId in the store, 0 when it has none.
UserIndex(us, userId) ==
    IF \E k \in 1..Len(us) : us[k].userId = userId
    THEN CHOOSE k \in 1..Len(us) : us[k].userId = userId
    ELSE 0

\* getUser(userId, nickname): the store after the lookup (the record is
\* created, or its display name updated).
getUser(us, userId, nickname) ==
    LET k == UserIndex(us, userId) IN
    IF k = 0
    THEN Append(us, [userId |-> userId, display_name |-> nickname,
                     wins_total |-> 0, tier |-> "none"])
    ELSE IF us[k].display_name # nickname
         THEN [us EXCEPT ![k].display_name = nickname]
         ELSE us

\* Mutant: the tier computed before the count is incremented.
incrementUserWinsStaleTier(us, k) ==
    [us EXCEPT ![k].wins_total = @ + 1,
               ![k].tier = computeTier(us[k].wins_total)]

\* incrementUserWins(user) on the record at index k.
incrementUserWins(us, k) ==
    [us EXCEPT ![k].wins_total = @ + 1,
               ![k].tier = computeTier(us[k].wins_total + 1)]

TierChanged(us, k) == computeTier(us[k].wins_total + 1) # us[k].tier

\* Array.prototype.sort((a, b) => b.wins_total - a.wins_total): stable.
RECURSIVE SortByWins(_)
SortByWins(arr) ==
    IF arr = <<>> THEN <<>>
    ELSE LET front == SortByWins(SubSeq(arr, 1, Len(arr) - 1))
             x == arr[Len(arr)]
             n == Cardinality({k \in 1..Len(front) :
                                 front[k].wins_total >= x.wins_total})
         IN SubSeq(front, 1, n) \o <<x>> \o SubSeq(front, n + 1, Len(front))

HasWins(x) == x.wins_total > 0

\* The leaderboard without the slice to the top 10.
computeLeaderboardUncut(us) == SelectSeq(SortByWins(us), HasWins)

computeLeaderboard(us) ==
    LET ranked == SelectSeq(SortByWins(us), HasWins)
    IN SubSeq(ranked, 1, Min(10, Len(ranked)))

\* A reset that keeps the records and zeroes them.
resetAllUsersZeroed(us) ==
    [k \in 1..Len(us) |-> [us[k] EXCEPT !.wins_total = 0, !.tier = "none"]]

\* resetAllUsers(): users = {}
resetAllUsers(us) == <<>>

---------------------------------------------------------------------------
(* Chat judge                                                              *)

\* Mutant: the window closed on the right (<= instead of <).
RateLimitedInclusive(userId) == now - userLastMsgAt[userId] <= RateLimitMs

\* if (now - last < 700) return;
RateLimited(userId) == now - userLastMsgAt[userId] < RateLimitMs

\* Mutant: the window taken in seconds.
HighlightActiveSeconds ==
    winner # <<>> /\ now - lastWinAt < winnerHighlightMs \div 1000

\* Mutant: a highlight that never ends.
HighlightActiveForever == winner # <<>>

\* winner && now - lastWinAt < winnerHighlightMs
HighlightActive == winner # <<>> /\ now - lastWinAt < winnerHighlightMs

\* Mutant: the secret-is-set test left out.
JudgeWithoutSecretTest(normalizedMsg) ==
    isRunning /\ ~HighlightActive /\ normalizedMsg = secretWordNorm

\* Mutant: guesses judged only while the round clock has time left.
JudgeWhileTimeLeft(normalizedMsg) ==
    /\ isRunning
    /\ secretWordNorm # <<>>
    /\ ~HighlightActive
    /\ now - roundStartedAt < roundDurationMs
    /\ normalizedMsg = secretWordNorm

\* isCorrect of an accepted message
Judge(normalizedMsg) ==
    /\ isRunning
    /\ secretWordNorm # <<>>
    /\ ~HighlightActive
    /\ normalizedMsg = secretWordNorm

\* The vote test without the look-up of the viewer among the voters.
VoteCountsRepeat(userId, normalizedMsg) ==
    /\ pollState # <<>>
    /\ \E k \in 1..Len(pollState[1].options) :
           pollState[1].options[k] = Trim(normalizedMsg)

\* Whether the message is counted as a vote of the active poll.
VoteCounts(userId, normalizedMsg) ==
    /\ pollState # <<>>
    /\ userId \notin pollState[1].voters
    /\ \E k \in 1..Len(pollState[1].options) :
           pollState[1].options[k] = Trim(normalizedMsg)

PollAfterVote(userId, normalizedMsg) ==
    IF VoteCounts(userId, normalizedMsg)
    THEN <<[pollState[1] EXCEPT
              !.voters = @ \cup {userId},
              !.tallies[Trim(normalizedMsg)] = @ + 1]>>
    ELSE pollState

\* Mutant: the mode test left out.
LockAppliesAnyMode(isCorrect) ==
    isRunning /\ secretWordNorm # <<>> /\ ~isCorrect

\* The lock test without the reading flag.
LockAppliesWhilePaused(isCorrect) ==
    gameMode = RAPID /\ secretWordNorm # <<>> /\ ~isCorrect

\* gameMode === "rapid" && isRunning && secretWordNorm && !isCorrect
LockApplies(isCorrect) ==
    gameMode = RAPID /\ isRunning /\ secretWordNorm # <<>> /\ ~isCorrect

\* Mutant: the ledger written before the rate-limit test.
ChatDroppedRecorded(userId) ==
    /\ out' = <<>>
    /\ userLastMsgAt' = [userLastMsgAt EXCEPT ![userId] = now]
    /\ UNCHANGED <<now, roundVars, users, gameMode, pollVars, echoAt>>

\* The early return of a rate-limited message.
ChatDropped(userId) ==
    /\ out' = <<>>
    /\ UNCHANGED <<now, roundVars, users, gameMode, pollVars, userLastMsgAt,
                   echoAt>>

\* An accepted message whose winner announcement precedes the revealed mask.
ChatAcceptedWinnerFirst(userId, nickname, text) ==
    LET normalizedMsg == normalize(text)
        isCorrect == Judge(normalizedMsg)
        voted == VoteCounts(userId, normalizedMsg)
        poll1 == PollAfterVote(userId, normalizedMsg)
        locked == LockApplies(isCorrect)
        rev1 == IF locked
                THEN PositionLock(revealedPositions, normalizedMsg, secretWordNorm)
                ELSE revealedPositions
        users1 == getUser(users, userId, nickname)
        k == UserIndex(users1, userId)
        rev2 == IF isCorrect THEN Filled(Len(secretWordRaw), TRUE) ELSE rev1
        users2 == IF isCorrect THEN incrementUserWins(users1, k) ELSE users1
    IN
    /\ userLastMsgAt' = [userLastMsgAt EXCEPT ![userId] = now]
    /\ echoAt' = [echoAt EXCEPT ![userId] = now]
    /\ pollState' = poll1
    /\ revealedPositions' = rev2
    /\ users' = users2
    /\ winner' = IF isCorrect
                 THEN <<[userId |-> userId, nickname |-> nickname,
                         at |-> now, guess |-> text]>>
                 ELSE winner
    /\ lastWinAt' = IF isCorrect THEN now ELSE lastWinAt
    /\ out' =
          (IF voted THEN <<[type |-> "pollUpdate", tallies |-> poll1[1].tallies]>>
           ELSE <<>>)
          \o (IF locked
              THEN <<[type |-> "mask", maskedWord |-> MaskOf(secretWordRaw, rev1)]>>
              ELSE <<>>)
          \o <<[type |-> "chat", userId |-> userId, nickname |-> nickname,
                text |-> text, ts |-> now, isCorrect |-> isCorrect,
                tier |-> users1[k].tier]>>
          \o (IF isCorrect
              THEN <<[type |-> "winner", userId |-> userId, nickname |-> nickname,
                      guess |-> text, highlightMs |-> winnerHighlightMs],
                     [type |-> "mask", maskedWord |-> MaskOf(secretWordRaw, rev2)],
                     [type |-> "userUpdate", userId |-> userId,
                      nickname |-> nickname,
                      wins_total |-> users2[k].wins_total,
                      tier |-> users2[k].tier,
                      tierChanged |-> TierChanged(users1, k)],
                     [type |-> "leaderboard",
                      leaderboard |-> computeLeaderboard(users2)]>>
              ELSE <<>>)
    /\ UNCHANGED <<now, isRunning, secretWordRaw, secretWordNorm,
                   roundStartedAt, roundDurationMs, gameMode, pollTimers>>

\* An accepted message: judge, vote, position lock, echo, win.
ChatAccepted(userId, nickname, text) ==
    LET normalizedMsg == normalize(text)
        isCorrect == Judge(normalizedMsg)
        voted == VoteCounts(userId, normalizedMsg)
        poll1 == PollAfterVote(userId, normalizedMsg)
        locked == LockApplies(isCorrect)
        rev1 == IF locked
                THEN PositionLock(revealedPositions, normalizedMsg, secretWordNorm)
                ELSE revealedPositions
        users1 == getUser(users, userId, nickname)
        k == UserIndex(users1, userId)
        rev2 == IF isCorrect THEN Filled(Len(secretWordRaw), TRUE) ELSE rev1
        users2 == IF isCorrect THEN incrementUserWins(users1, k) ELSE users1
    IN
    /\ userLastMsgAt' = [userLastMsgAt EXCEPT ![userId] = now]
    /\ echoAt' = [echoAt EXCEPT ![userId] = now]
    /\ pollState' = poll1
    /\ revealedPositions' = rev2
    /\ users' = users2
    /\ winner' = IF isCorrect
                 THEN <<[userId |-> userId, nickname |-> nickname,
                         at |-> now, guess |-> text]>>
                 ELSE winner
    /\ lastWinAt' = IF isCorrect THEN now ELSE lastWinAt
    /\ out' =
          (IF voted THEN <<[type |-> "pollUpdate", tallies |-> poll1[1].tallies]>>
           ELSE <<>>)
          \o (IF locked
              THEN <<[type |-> "mask", maskedWord |-> MaskOf(secretWordRaw, rev1)]>>
              ELSE <<>>)
          \o <<[type |-> "chat", userId |-> userId, nickname |-> nickname,
                text |-> text, ts |-> now, isCorrect |-> isCorrect,
                tier |-> users1[k].tier]>>
          \o (IF isCorrect
              THEN <<[type |-> "mask", maskedWord |-> MaskOf(secretWordRaw, rev2)],
                     [type |-> "winner", userId |-> userId, nickname |-> nickname,
                      guess |-> text, highlightMs |-> winnerHighlightMs],
                     [type |-> "userUpdate", userId |-> userId,
                      nickname |-> nickname,
                      wins_total |-> users2[k].wins_total,
                      tier |-> users2[k].tier,
                      tierChanged |-> TierChanged(users1, k)],
                     [type |-> "leaderboard",
                      leaderboard |-> computeLeaderboard(users2)]>>
              ELSE <<>>)
    /\ UNCHANGED <<now, isRunning, secretWordRaw, secretWordNorm,
                   roundStartedAt, roundDurationMs, gameMode, pollTimers>>

\* ttConnection.on("chat", ...)
Chat(userId, nickname, text) ==
    /\ UNCHANGED connVars
    /\ ev' = [op |-> "chat", userId |-> userId, text |-> text]
    /\ res' = 0
    /\ IF RateLimited(userId)
       THEN ChatDropped(userId)
       ELSE ChatAccepted(userId, nickname, text)

---------------------------------------------------------------------------
(* Round admin requests                                                    *)

\* set-word sizing the reveal state by the normalized secret.
SetWordNormLength(word) ==
    /\ UNCHANGED connVars
    /\ ev' = [op |-> "set-word", word |-> word]
    /\ IF word = <<>>
       THEN /\ res' = 400
            /\ out' = <<>>
            /\ UNCHANGED <<roundVars>>
       ELSE /\ res' = 200
            /\ secretWordRaw' = word
            /\ secretWordNorm' = normalize(word)
            /\ revealedPositions' = Filled(Len(normalize(word)), FALSE)
            /\ roundDurationMs' = DefaultRoundMs
            /\ roundStartedAt' = now
            /\ isRunning' = TRUE
            /\ winner' = <<>>
            /\ lastWinAt' = 0
            /\ out' = <<[type |-> "round", status |-> "started",
                         secretLen |-> Len(normalize(word)),
                         maskedWord |-> MaskOf(word, Filled(Len(word), FALSE)),
                         timeLeftMs |-> DefaultRoundMs]>>
    /\ UNCHANGED <<now, users, gameMode, pollVars, userLastMsgAt, echoAt>>

\* set-word that leaves the winner record of the last round.
SetWordKeepsWinner(word) ==
    /\ UNCHANGED connVars
    /\ ev' = [op |-> "set-word", word |-> word]
    /\ IF word = <<>>
       THEN /\ res' = 400
            /\ out' = <<>>
            /\ UNCHANGED <<roundVars>>
       ELSE /\ res' = 200
            /\ secretWordRaw' = word
            /\ secretWordNorm' = normalize(word)
            /\ revealedPositions' = Filled(Len(word), FALSE)
            /\ roundDurationMs' = DefaultRoundMs
            /\ roundStartedAt' = now
            /\ isRunning' = TRUE
            /\ UNCHANGED <<winner, lastWinAt>>
            /\ out' = <<[type |-> "round", status |-> "started",
                         secretLen |-> Len(normalize(word)),
                         maskedWord |-> MaskOf(word, Filled(Len(word), FALSE)),
                         timeLeftMs |-> DefaultRoundMs]>>
    /\ UNCHANGED <<now, users, gameMode, pollVars, userLastMsgAt, echoAt>>

\* POST /api/set-word
SetWord(word) ==
    /\ UNCHANGED connVars
    /\ ev' = [op |-> "set-word", word |-> word]
    /\ IF word = <<>>
       THEN /\ res' = 400
            /\ out' = <<>>
            /\ UNCHANGED <<roundVars>>
       ELSE /\ res' = 200
            /\ secretWordRaw' = word
            /\ secretWordNorm' = normalize(word)
            /\ revealedPositions' = Filled(Len(word), FALSE)
            /\ roundDurationMs' = DefaultRoundMs
            /\ roundStartedAt' = now
            /\ isRunning' = TRUE
            /\ winner' = <<>>
            /\ lastWinAt' = 0
            /\ out' = <<[type |-> "round", status |-> "started",
                         secretLen |-> Len(normalize(word)),
                         maskedWord |-> MaskOf(word, Filled(Len(word), FALSE)),
                         timeLeftMs |-> DefaultRoundMs]>>
    /\ UNCHANGED <<now, users, gameMode, pollVars, userLastMsgAt, echoAt>>

\* reset-round leaving the round's start instant in place.
ResetRoundKeepsClock ==
    /\ UNCHANGED connVars
    /\ ev' = [op |-> "reset-round"]
    /\ res' = 200
    /\ winner' = <<>>
    /\ lastWinAt' = 0
    /\ isRunning' = FALSE
    /\ secretWordRaw' = <<>>
    /\ secretWordNorm' = <<>>
    /\ revealedPositions' = <<>>
    /\ roundDurationMs' = DefaultRoundMs
    /\ UNCHANGED roundStartedAt
    /\ out' = <<[type |-> "round", status |-> "reset", maskedWord |-> <<>>,
                 timeLeftMs |-> 0]>>
    /\ UNCHANGED <<now, users, gameMode, pollVars, userLastMsgAt, echoAt>>

\* POST /api/reset-round
ResetRound ==
    /\ UNCHANGED connVars
    /\ ev' = [op |-> "reset-round"]
    /\ res' = 200
    /\ winner' = <<>>
    /\ lastWinAt' = 0
    /\ isRunning' = FALSE
    /\ secretWordRaw' = <<>>
    /\ secretWordNorm' = <<>>
    /\ revealedPositions' = <<>>
    /\ roundDurationMs' = DefaultRoundMs
    /\ roundStartedAt' = 0
    /\ out' = <<[type |-> "round", status |-> "reset", maskedWord |-> <<>>,
                 timeLeftMs |-> 0]>>
    /\ UNCHANGED <<now, users, gameMode, pollVars, userLastMsgAt, echoAt>>

\* POST /api/start-reading
StartReading ==
    /\ UNCHANGED connVars
    /\ ev' = [op |-> "start-reading"]
    /\ IF secretWordNorm = <<>>
       THEN /\ res' = 400
            /\ out' = <<>>
            /\ UNCHANGED isRunning
       ELSE /\ res' = 200
            /\ isRunning' = TRUE
            /\ out' = <<[type |-> "round", status |-> "reading_started"]>>
    /\ UNCHANGED <<now, secretWordRaw, secretWordNorm, winner, lastWinAt,
                   roundStartedAt, roundDurationMs, revealedPositions, users,
                   gameMode, pollVars, userLastMsgAt, echoAt>>

\* POST /api/stop-reading
StopReading ==
    /\ UNCHANGED connVars
    /\ ev' = [op |-> "stop-reading"]
    /\ res' = 200
    /\ isRunning' = FALSE
    /\ out' = <<[type |-> "round", status |-> "reading_stopped"]>>
    /\ UNCHANGED <<now, secretWordRaw, secretWordNorm, winner, lastWinAt,
                   roundStartedAt, roundDurationMs, revealedPositions, users,
                   gameMode, pollVars, userLastMsgAt, echoAt>>

\* /api/mode assigning the mode before it validates it.
SetModeAssignsFirst(mode) ==
    /\ UNCHANGED connVars
    /\ ev' = [op |-> "mode", mode |-> mode]
    /\ IF mode # CLASSIC /\ mode # RAPID
       THEN /\ res' = 400
            /\ out' = <<>>
            /\ gameMode' = mode
       ELSE /\ res' = 200
            /\ gameMode' = mode
            /\ out' = <<[type |-> "state", mode |-> mode]>>
    /\ UNCHANGED <<now, roundVars, users, pollVars, userLastMsgAt, echoAt>>

\* POST /api/mode
SetMode(mode) ==
    /\ UNCHANGED connVars
    /\ ev' = [op |-> "mode", mode |-> mode]
    /\ IF mode # CLASSIC /\ mode # RAPID
       THEN /\ res' = 400
            /\ out' = <<>>
            /\ UNCHANGED gameMode
       ELSE /\ res' = 200
            /\ gameMode' = mode
            /\ out' = <<[type |-> "state", mode |-> mode]>>
    /\ UNCHANGED <<now, roundVars, users, pollVars, userLastMsgAt, echoAt>>

---------------------------------------------------------------------------
(* Reveal requests                                                         *)

\* The handlers that change nothing but revealedPositions.
RevealFrame ==
    UNCHANGED <<now, isRunning, secretWordRaw, secretWordNorm, winner,
                lastWinAt, roundStartedAt, roundDurationMs, users, gameMode,
                pollVars, userLastMsgAt, echoAt>>

\* POST /api/reveal-word
RevealWord ==
    /\ UNCHANGED connVars
    /\ ev' = [op |-> "reveal-word"]
    /\ IF secretWordNorm = <<>>
       THEN /\ res' = 400
            /\ out' = <<>>
            /\ UNCHANGED revealedPositions
       ELSE /\ res' = 200
            /\ revealedPositions' = Filled(Len(secretWordRaw), TRUE)
            /\ out' = <<[type |-> "mask",
                         maskedWord |-> MaskOf(secretWordRaw,
                                               Filled(Len(secretWordRaw), TRUE))]>>
    /\ RevealFrame

\* [;,\s]
IsSeparator(ch) == ch \in {";", ",", " "}

RECURSIVE SkipSeparators(_)
SkipSeparators(s) ==
    IF s # <<>> /\ IsSeparator(Head(s)) THEN SkipSeparators(Tail(s)) ELSE s

\* positions.split(/[;,\s]+/): cur is the token being read, acc the tokens
\* already closed.  A leading or trailing separator run gives an empty token.
RECURSIVE SplitLoop(_, _, _)
SplitLoop(s, cur, acc) ==
    IF s = <<>> THEN Append(acc, cur)
    ELSE IF IsSeparator(Head(s))
         THEN SplitLoop(SkipSeparators(s), <<>>, Append(acc, cur))
         ELSE SplitLoop(Tail(s), Append(cur, Head(s)), acc)

Split(s) == SplitLoop(s, <<>>, <<>>)

DigitValue(ch) ==
    CASE ch = "0" -> 0 [] ch = "1" -> 1 [] ch = "2" -> 2
      [] ch = "3" -> 3 [] ch = "9" -> 9

\* The value of the longest prefix of decimal digits of s, after acc.
RECURSIVE DigitsPrefix(_, _)
DigitsPrefix(s, acc) ==
    IF s # <<>> /\ Head(s) \in Digits
    THEN DigitsPrefix(Tail(s), 10 * acc + DigitValue(Head(s)))
    ELSE acc

\* parseInt(p, 10): an optional sign, then the longest prefix of decimal
\* digits; whatever follows is ignored.  <<>> stands for NaN, <<n>> for n.
parseInt(p) ==
    LET neg == p # <<>> /\ Head(p) = "-"
        body == IF p # <<>> /\ Head(p) \in {"-", "+"} THEN Tail(p) ELSE p
    IN IF body = <<>> \/ Head(body) \notin Digits THEN <<>>
       ELSE <<(IF neg THEN -1 ELSE 1) * DigitsPrefix(body, 0)>>

\* parts.forEach(p => { idx = parseInt(p, 10); if (!isNaN(idx) && idx >= 1
\* && idx <= revealedPositions.length) revealedPositions[idx - 1] = true })
RECURSIVE RevealParts(_, _)
RevealParts(rev, parts) ==
    IF parts = <<>> THEN rev
    ELSE LET idx == parseInt(Head(parts))
         IN RevealParts(IF idx # <<>> /\ idx[1] >= 1 /\ idx[1] <= Len(rev)
                        THEN SetRevealed(rev, idx[1] - 1)
                        ELSE rev,
                        Tail(parts))

\* POST /api/reveal-letters
RevealLetters(positions) ==
    /\ UNCHANGED connVars
    /\ ev' = [op |-> "reveal-letters", positions |-> positions]
    /\ IF secretWordNorm = <<>> \/ positions = <<>>
       THEN /\ res' = 400
            /\ out' = <<>>
            /\ UNCHANGED revealedPositions
       ELSE LET rev1 == RevealParts(revealedPositions, Split(positions))
            IN /\ res' = 200
               /\ revealedPositions' = rev1
               /\ out' = <<[type |-> "mask",
                            maskedWord |-> MaskOf(secretWordRaw, rev1)]>>
    /\ RevealFrame

\* POST /api/boost/reveal-letter: idx is the index Math.random() picks.
BoostRevealLetter(idx) ==
    /\ UNCHANGED connVars
    /\ ev' = [op |-> "boost/reveal-letter"]
    /\ IF secretWordNorm = <<>>
          \/ \A i \in 0..(Len(revealedPositions) - 1) :
                 Revealed(revealedPositions, i)
       THEN /\ res' = 400
            /\ out' = <<>>
            /\ UNCHANGED revealedPositions
       ELSE /\ idx \in 0..(Len(revealedPositions) - 1)
            /\ ~Revealed(revealedPositions, idx)
            /\ res' = 200
            /\ revealedPositions' = SetRevealed(revealedPositions, idx)
            /\ out' = <<[type |-> "boost", kind |-> "reveal-letter",
                         index |-> idx],
                        [type |-> "mask",
                         maskedWord |-> MaskOf(secretWordRaw,
                                               SetRevealed(revealedPositions, idx))]>>
    /\ RevealFrame

\* POST /api/boost/reveal-word
BoostRevealWord ==
    /\ UNCHANGED connVars
    /\ ev' = [op |-> "boost/reveal-word"]
    /\ IF secretWordNorm = <<>>
       THEN /\ res' = 400
            /\ out' = <<>>
            /\ UNCHANGED revealedPositions
       ELSE /\ res' = 200
            /\ revealedPositions' = Filled(Len(secretWordRaw), TRUE)
            /\ out' = <<[type |-> "boost", kind |-> "reveal-word"],
                        [type |-> "mask",
                         maskedWord |-> MaskOf(secretWordRaw,
                                               Filled(Len(secretWordRaw), TRUE))]>>
    /\ RevealFrame

---------------------------------------------------------------------------
(* Poll engine                                                             *)

\* The loop with maxVotes never updated: every option replaces the winner,
\* so the last one is announced.
PollWinnerLoopStaleMax(options, tallies, best, maxVotes) ==
    IF options = <<>> THEN best ELSE options[Len(options)]

\* The option endPoll() announces: the loop keeps the first option whose
\* tally is strictly greater than every tally before it (maxVotes starts
\* at -1, so the first option always replaces the initial gameMode).
RECURSIVE PollWinnerLoop(_, _, _, _)
PollWinnerLoop(options, tallies, best, maxVotes) ==
    IF options = <<>> THEN best
    ELSE IF tallies[Head(options)] > maxVotes
         THEN PollWinnerLoop(Tail(options), tallies, Head(options),
                             tallies[Head(options)])
         ELSE PollWinnerLoop(Tail(options), tallies, best, maxVotes)

PollWinner == PollWinnerLoop(pollState[1].options, pollState[1].tallies,
                             gameMode, -1)

\* endPoll() without the final pollState = null.
endPollKeepsPoll ==
    IF pollState = <<>>
    THEN /\ out' = <<>>
         /\ UNCHANGED <<gameMode, pollState>>
    ELSE /\ gameMode' = PollWinner
         /\ out' = <<[type |-> "pollEnd", winner |-> PollWinner,
                      tallies |-> pollState[1].tallies],
                     [type |-> "state", mode |-> PollWinner]>>
         /\ UNCHANGED pollState

\* endPoll()
endPoll ==
    IF pollState = <<>>
    THEN /\ out' = <<>>
         /\ UNCHANGED <<gameMode, pollState>>
    ELSE /\ gameMode' = PollWinner
         /\ out' = <<[type |-> "pollEnd", winner |-> PollWinner,
                      tallies |-> pollState[1].tallies],
                     [type |-> "state", mode |-> PollWinner]>>
         /\ pollState' = <<>>

\* Number(durationMs) || 20_000
PollDuration(durationMs) == IF durationMs = 0 THEN DefaultPollMs ELSE durationMs

\* poll/start without the test for a running poll.
PollStartReplaces(options, durationMs) ==
    /\ Len(pollTimers) < MaxTimers
    /\ UNCHANGED connVars
    /\ ev' = [op |-> "poll/start", options |-> options,
              durationMs |-> durationMs]
    /\ IF Len(options) < 2
       THEN /\ res' = 400
            /\ out' = <<>>
            /\ UNCHANGED <<pollState, pollTimers>>
       ELSE /\ res' = 200
            /\ pollState' =
                  <<[question |-> "Choose a mode",
                     options |-> options,
                     tallies |-> [o \in {options[k] : k \in 1..Len(options)} |-> 0],
                     voters |-> {},
                     endsAt |-> now + PollDuration(durationMs)]>>
            /\ out' = <<[type |-> "pollStart", question |-> "Choose a mode",
                         options |-> options,
                         endsAt |-> now + PollDuration(durationMs)]>>
            /\ pollTimers' = Append(pollTimers, now + PollDuration(durationMs))
    /\ UNCHANGED <<now, roundVars, users, gameMode, userLastMsgAt, echoAt>>

\* poll/start that schedules no auto-close.
PollStartNoTimer(options, durationMs) ==
    /\ Len(pollTimers) < MaxTimers
    /\ UNCHANGED connVars
    /\ ev' = [op |-> "poll/start", options |-> options,
              durationMs |-> durationMs]
    /\ IF pollState # <<>> \/ Len(options) < 2
       THEN /\ res' = 400
            /\ out' = <<>>
            /\ UNCHANGED <<pollState, pollTimers>>
       ELSE /\ res' = 200
            /\ pollState' =
                  <<[question |-> "Choose a mode",
                     options |-> options,
                     tallies |-> [o \in {options[k] : k \in 1..Len(options)} |-> 0],
                     voters |-> {},
                     endsAt |-> now + PollDuration(durationMs)]>>
            /\ out' = <<[type |-> "pollStart", question |-> "Choose a mode",
                         options |-> options,
                         endsAt |-> now + PollDuration(durationMs)]>>
            /\ UNCHANGED pollTimers
    /\ UNCHANGED <<now, roundVars, users, gameMode, userLastMsgAt, echoAt>>

\* POST /api/poll/start
PollStart(options, durationMs) ==
    /\ Len(pollTimers) < MaxTimers
    /\ UNCHANGED connVars
    /\ ev' = [op |-> "poll/start", options |-> options,
              durationMs |-> durationMs]
    /\ IF pollState # <<>> \/ Len(options) < 2
       THEN /\ res' = 400
            /\ out' = <<>>
            /\ UNCHANGED <<pollState, pollTimers>>
       ELSE /\ res' = 200
            /\ pollState' =
                  <<[question |-> "Choose a mode",
                     options |-> options,
                     tallies |-> [o \in {options[k] : k \in 1..Len(options)} |-> 0],
                     voters |-> {},
                     endsAt |-> now + PollDuration(durationMs)]>>
            /\ out' = <<[type |-> "pollStart", question |-> "Choose a mode",
                         options |-> options,
                         endsAt |-> now + PollDuration(durationMs)]>>
            /\ pollTimers' = Append(pollTimers, now + PollDuration(durationMs))
    /\ UNCHANGED <<now, roundVars, users, gameMode, userLastMsgAt, echoAt>>

\* POST /api/poll/stop
PollStop ==
    /\ UNCHANGED connVars
    /\ ev' = [op |-> "poll/stop"]
    /\ IF pollState = <<>>
       THEN /\ res' = 400
            /\ out' = <<>>
            /\ UNCHANGED <<gameMode, pollState>>
       ELSE /\ res' = 200
            /\ endPoll
    /\ UNCHANGED <<now, roundVars, users, pollTimers, userLastMsgAt, echoAt>>

RemoveAt(s, k) == SubSeq(s, 1, k - 1) \o SubSeq(s, k + 1, Len(s))

\* The callback of setTimeout(() => endPoll(), durMs), once it is due.
PollTimeout(k) ==
    /\ k \in 1..Len(pollTimers)
    /\ now >= pollTimers[k]
    /\ UNCHANGED connVars
    /\ ev' = [op |-> "poll/timeout"]
    /\ res' = 0
    /\ endPoll
    /\ pollTimers' = RemoveAt(pollTimers, k)
    /\ UNCHANGED <<now, roundVars, users, userLastMsgAt, echoAt>>

\* POST /api/users/reset
UsersReset ==
    /\ UNCHANGED connVars
    /\ ev' = [op |-> "users/reset"]
    /\ res' = 200
    /\ users' = resetAllUsers(users)
    /\ out' = <<[type |-> "state", users |-> resetAllUsers(users)],
                [type |-> "leaderboard",
                 leaderboard |-> computeLeaderboard(resetAllUsers(users))]>>
    /\ UNCHANGED <<now, roundVars, gameMode, pollVars, userLastMsgAt, echoAt>>

\* io.on("connection"): the bootstrap payload sent to the new socket.
Bootstrap ==
    /\ UNCHANGED connVars
    /\ ev' = [op |-> "connection"]
    /\ res' = 0
    /\ out' = <<[type |-> "bootstrap",
                 connectedRoom |-> connectedRoom,
                 isRunning |-> isRunning,
                 secretSet |-> secretWordNorm # <<>>,
                 winner |-> winner,
                 maskedWord |-> getMaskedWord,
                 mode |-> gameMode,
                 users |-> users,
                 leaderboard |-> computeLeaderboard(users)]>>
    /\ UNCHANGED <<now, roundVars, users, gameMode, pollVars, userLastMsgAt,
                   echoAt>>

---------------------------------------------------------------------------
(* The round timer                                                         *)

\* The total duration the model lets the extensions reach, in ms.
MaxDurationMs == 60000

\* The extra time of the prompt boost when the request names none.
DefaultPromptMs == 10000

\* if (!secretWordNorm || !roundStartedAt): no round is active.
NoActiveRound == secretWordNorm = <<>> \/ roundStartedAt = 0

\* Math.max(0, d - (Date.now() - roundStartedAt)) without the clamp.
TimeLeftUnclamped(d) == d - (now - roundStartedAt)

\* Math.max(0, d - (Date.now() - roundStartedAt)) for a total duration d.
TimeLeft(d) == IF d - (now - roundStartedAt) > 0
               THEN d - (now - roundStartedAt) ELSE 0

\* timeLeftMs of GET /api/state: 0 unless a round clock is set.
timeLeftMs ==
    IF roundStartedAt # 0 /\ roundDurationMs # 0
    THEN TimeLeft(roundDurationMs) ELSE 0

\* The "timer_updated" round broadcast for a total duration d.
TimerUpdated(d) ==
    [type |-> "round", status |-> "timer_updated",
     maskedWord |-> getMaskedWord, timeLeftMs |-> TimeLeft(d)]

\* POST /api/boost/add-time with a numeric ms.
BoostAddTime(ms) ==
    /\ roundDurationMs + ms <= MaxDurationMs
    /\ UNCHANGED connVars
    /\ ev' = [op |-> "boost/add-time", ms |-> ms]
    /\ IF NoActiveRound \/ ms <= 0
       THEN /\ res' = 400
            /\ out' = <<>>
            /\ UNCHANGED roundDurationMs
       ELSE /\ res' = 200
            /\ roundDurationMs' = roundDurationMs + ms
            /\ out' = <<[type |-> "boost", kind |-> "add-time", ms |-> ms],
                        TimerUpdated(roundDurationMs + ms)>>
    /\ UNCHANGED <<now, isRunning, secretWordRaw, secretWordNorm, winner,
                   lastWinAt, roundStartedAt, revealedPositions, users,
                   gameMode, pollVars, userLastMsgAt, echoAt>>

\* Number(extraTimeMs) || 10000
PromptExtra(extraTimeMs) ==
    IF extraTimeMs = 0 THEN DefaultPromptMs ELSE extraTimeMs

\* POST /api/boost/prompt with a numeric extraTimeMs.
BoostPrompt(extraTimeMs) ==
    /\ roundDurationMs + PromptExtra(extraTimeMs) <= MaxDurationMs
    /\ roundDurationMs + PromptExtra(extraTimeMs) >= 0 - MaxDurationMs
    /\ UNCHANGED connVars
    /\ ev' = [op |-> "boost/prompt", extraTimeMs |-> extraTimeMs]
    /\ IF NoActiveRound
       THEN /\ res' = 400
            /\ out' = <<>>
            /\ UNCHANGED roundDurationMs
       ELSE /\ res' = 200
            /\ roundDurationMs' = roundDurationMs + PromptExtra(extraTimeMs)
            /\ out' = <<[type |-> "boost", kind |-> "prompt",
                         ms |-> PromptExtra(extraTimeMs)],
                        TimerUpdated(roundDurationMs
                                       + PromptExtra(extraTimeMs))>>
    /\ UNCHANGED <<now, isRunning, secretWordRaw, secretWordNorm, winner,
                   lastWinAt, roundStartedAt, revealedPositions, users,
                   gameMode, pollVars, userLastMsgAt, echoAt>>

\* The ms that /api/update-timer works with: the body's ms, or its seconds
\* times 1000 when ms is absent.  An absent field is <<>>, a number n is
\* <<n>>; the result is <<>> when neither is given.
RequestedMs(ms, seconds) ==
    IF seconds # <<>> /\ ms = <<>> THEN <<seconds[1] * 1000>> ELSE ms

\* update-timer taking the requested time as the total duration.
UpdateTimerDurationAbsolute(elapsed, ms) == ms

\* roundDurationMs = elapsed + ms
UpdateTimerDuration(elapsed, ms) == elapsed + ms

\* POST /api/update-timer with numeric or absent ms and seconds.
UpdateTimer(ms, seconds) ==
    /\ UNCHANGED connVars
    /\ ev' = [op |-> "update-timer", ms |-> ms, seconds |-> seconds]
    /\ IF \/ NoActiveRound
          \/ RequestedMs(ms, seconds) = <<>>
          \/ RequestedMs(ms, seconds)[1] < 0
       THEN /\ res' = 400
            /\ out' = <<>>
            /\ UNCHANGED roundDurationMs
       ELSE /\ res' = 200
            /\ roundDurationMs' =
                  UpdateTimerDuration(now - roundStartedAt,
                                       RequestedMs(ms, seconds)[1])
            /\ out' = <<TimerUpdated(
                          UpdateTimerDuration(now - roundStartedAt,
                                               RequestedMs(ms, seconds)[1]))>>
    /\ UNCHANGED <<now, isRunning, secretWordRaw, secretWordNorm, winner,
                   lastWinAt, roundStartedAt, revealedPositions, users,
                   gameMode, pollVars, userLastMsgAt, echoAt>>

---------------------------------------------------------------------------
(* The chat source connection                                              *)

\* The number of connections the model lets /api/start create.
MaxSessions == 2

Rooms == { "room1" }

\* ttConnection.disconnect() on the connection at index i (none when 0): an
\* open connection starts closing; its "disconnected" event comes later.
Disconnect(ss, i) ==
    IF i # 0 /\ ss[i].status = "connected"
    THEN [ss EXCEPT ![i].status = "closing"]
    ELSE ss

\* POST /api/start up to the await of connect(): the old connection is
\* disconnected and a new one is created; the response is still to come.
Start(room) ==
    /\ room # <<>> => Len(sessions) < MaxSessions
    /\ ev' = [op |-> "start", room |-> room]
    /\ out' = <<>>
    /\ IF room = <<>>
       THEN /\ res' = 400
            /\ UNCHANGED connVars
       ELSE /\ res' = 0
            /\ sessions' = Append(Disconnect(sessions, ttConnection),
                                  [room |-> room[1], status |-> "connecting",
                                   handlers |-> 0])
            /\ ttConnection' = Len(sessions) + 1
            /\ UNCHANGED connectedRoom
    /\ UNCHANGED <<now, roundVars, users, gameMode, pollVars, userLastMsgAt,
                   echoAt>>

\* ttConnection.on(...) after the await: the four handlers are registered
\* on the connection the global ttConnection names at that moment, which
\* need not be the connection whose connect() resolved.
Register(ss, t) == [ss EXCEPT ![t].handlers = @ + 1]

\* connect() of connection i resolves: connectTikTok continues after the
\* await, sets connectedRoom, announces the connection and registers the
\* handlers on ttConnection; /api/start answers { ok: true }.  When
\* ttConnection is null by then (an /api/stop came in between),
\* ttConnection.on throws and the catch of /api/start answers 500.
ConnectResolved(i) ==
    /\ i \in 1..Len(sessions)
    /\ sessions[i].status = "connecting"
    /\ ev' = [op |-> "start/resolved", room |-> <<sessions[i].room>>]
    /\ connectedRoom' = <<sessions[i].room>>
    /\ out' = <<[type |-> "system", kind |-> "connected",
                 room |-> sessions[i].room]>>
    /\ IF ttConnection = 0
       THEN /\ res' = 500
            /\ sessions' = [sessions EXCEPT ![i].status = "connected"]
       ELSE /\ res' = 200
            /\ sessions' = Register([sessions EXCEPT ![i].status = "connected"],
                                    ttConnection)
    /\ UNCHANGED <<now, roundVars, users, gameMode, pollVars, userLastMsgAt,
                   ttConnection, echoAt>>

\* connect() of connection i rejects: connectTikTok throws at the await and
\* the catch of /api/start answers 500; no handler was registered.
ConnectRejected(i) ==
    /\ i \in 1..Len(sessions)
    /\ sessions[i].status = "connecting"
    /\ ev' = [op |-> "start/rejected", room |-> <<sessions[i].room>>]
    /\ res' = 500
    /\ out' = <<>>
    /\ sessions' = [sessions EXCEPT ![i].status = "failed"]
    /\ UNCHANGED <<now, roundVars, users, gameMode, pollVars, userLastMsgAt,
                   ttConnection, connectedRoom, echoAt>>

\* One broadcast per registered handler of the event.
PerHandler(i, rec) == [k \in 1..sessions[i].handlers |-> rec]

\* Connection i can still deliver events to its handlers.
Live(i) ==
    /\ i \in 1..Len(sessions)
    /\ sessions[i].handlers >= 1
    /\ sessions[i].status \in {"connected", "closing"}

\* ttConnection.on("error", ...)
SessionError(i) ==
    /\ Live(i)
    /\ ev' = [op |-> "session/error"]
    /\ res' = 0
    /\ out' = PerHandler(i, [type |-> "system", kind |-> "error"])
    /\ UNCHANGED <<now, roundVars, users, gameMode, pollVars, userLastMsgAt,
                   connVars, echoAt>>

\* ttConnection.on("streamEnd", ...)
SessionStreamEnd(i) ==
    /\ Live(i)
    /\ ev' = [op |-> "session/streamEnd"]
    /\ res' = 0
    /\ out' = PerHandler(i, [type |-> "system", kind |-> "stream_end"])
    /\ UNCHANGED <<now, roundVars, users, gameMode, pollVars, userLastMsgAt,
                   connVars, echoAt>>

\* ttConnection.on("disconnected", ...)
SessionDisconnected(i) ==
    /\ Live(i)
    /\ ev' = [op |-> "session/disconnected"]
    /\ res' = 0
    /\ out' = PerHandler(i, [type |-> "system", kind |-> "disconnected"])
    /\ sessions' = [sessions EXCEPT ![i].status = "closed"]
    /\ connectedRoom' = <<>>
    /\ UNCHANGED <<now, roundVars, users, gameMode, pollVars, userLastMsgAt,
                   ttConnection, echoAt>>

\* A disconnect request that leaves the reading flag alone.
StopKeepsReading ==
    /\ ev' = [op |-> "stop"]
    /\ res' = 200
    /\ out' = <<>>
    /\ sessions' = Disconnect(sessions, ttConnection)
    /\ ttConnection' = 0
    /\ connectedRoom' = <<>>
    /\ UNCHANGED <<now, roundVars, users, gameMode, pollVars, userLastMsgAt,
                   echoAt>>

\* POST /api/stop: disconnectTikTok(), isRunning = false
Stop ==
    /\ ev' = [op |-> "stop"]
    /\ res' = 200
    /\ out' = <<>>
    /\ sessions' = Disconnect(sessions, ttConnection)
    /\ ttConnection' = 0
    /\ connectedRoom' = <<>>
    /\ isRunning' = FALSE
    /\ UNCHANGED <<now, secretWordRaw, secretWordNorm, winner, lastWinAt,
                   roundStartedAt, roundDurationMs, revealedPositions, users,
                   gameMode, pollVars, userLastMsgAt, echoAt>>

---------------------------------------------------------------------------
(* The clock and the environment                                           *)

\* Time passes between two handlers.
TickIn(instants) ==
    /\ \E t \in instants : t > now /\ now' = t
    /\ UNCHANGED connVars
    /\ ev' = [op |-> "tick"]
    /\ res' = 0
    /\ out' = <<>>
    /\ UNCHANGED <<roundVars, users, gameMode, pollVars, userLastMsgAt, echoAt>>

Tick == TickIn(Times)

\* Viewers send their own nickname.
NicknameOf(userId) == userId

---------------------------------------------------------------------------
(* Specifications                                                          *)

ValidModes == {CLASSIC, RAPID}

\* Spec: the chat judge and the round state machine.  A secret whose raw
\* form differs from its normalized form, a word that is empty after
\* normalization and a missing word; guesses that are right, right after
\* normalization, right in positions 0 and 2 only, and empty after
\* normalization.
JudgeWords == { <<"C", "a", "t", "!">>, <<"!">>, <<>> }

JudgeTexts == { <<"c", "a", "t">>, <<" ", "C", "a", "t", "!">>,
                <<"c", "o", "t">>, <<"!">> }

Next ==
    \/ Tick
    \/ \E u \in UserIds, t \in JudgeTexts : Chat(u, NicknameOf(u), t)
    \/ \E w \in JudgeWords : SetWord(w)
    \/ ResetRound
    \/ StartReading
    \/ StopReading
    \/ \E m \in ValidModes : SetMode(m)

Spec == Init /\ [][Next]_vars

\* SpecReveal: the reveal engine under every request that touches it.  The
\* secrets: plain, one precomposed Hangul syllable (one code unit, three
\* after normalization), punctuation only, and a missing word.
RevealWords == { <<"c", "a", "t">>, <<"HAN">>, <<"!">>, <<>> }

RevealTexts == { <<"c", "a", "t">>, <<"c", "o", "t">>, <<"HA">> }

\* The position lists sent to reveal-letters.
PositionLists == { <<"2">>, <<"1", ";", "3">>, <<"1", ",", "x", " ", "9">>,
                   <<"2", "x">>, <<"-", "1">>, <<";", "0">>, <<>> }

NextReveal ==
    \/ TickIn({T0 + 700})
    \/ \E u \in UserIds, t \in RevealTexts : Chat(u, NicknameOf(u), t)
    \/ \E w \in RevealWords : SetWord(w)
    \/ ResetRound
    \/ StartReading
    \/ \E m \in ValidModes : SetMode(m)
    \/ RevealWord
    \/ \E p \in PositionLists : RevealLetters(p)
    \/ \E i \in 0..Len(revealedPositions) : BoostRevealLetter(i)
    \/ BoostRevealWord

SpecReveal == Init /\ [][NextReveal]_vars

\* SpecVote: chat while a poll may be running, in rapid mode.
VoteWords == { <<"C", "a", "t", "!">> }

VoteTexts == { <<"c", "a", "t">>, RAPID }

NextVote ==
    \/ TickIn({T0 + 500, T0 + 700})
    \/ \E u \in UserIds, t \in VoteTexts : Chat(u, NicknameOf(u), t)
    \/ \E w \in VoteWords : SetWord(w)
    \/ SetMode(RAPID)
    \/ PollStart(<<CLASSIC, RAPID>>, 500)
    \/ PollStop
    \/ \E k \in 1..MaxTimers : PollTimeout(k)

SpecVote == Init /\ [][NextVote]_vars

\* The round timer: one round word, a word that normalizes to nothing,
\* the instants 5 s and 35 s into a round started at T0, and extension
\* requests that are positive, zero, negative and absent.
TimerWords == { <<"c", "a", "t">>, <<"!">> }

TimerInstants == { T0 + 5000, T0 + 35000 }

AddTimeRequests == { 10000, 0, 0 - 5000 }

PromptRequests == { 5000, 0, 0 - 5000 }

UpdateTimerRequests ==
    { <<<<30000>>, <<>>>>, <<<<>>, <<30>>>>, <<<<0>>, <<>>>>,
      <<<<0 - 1>>, <<>>>>, <<<<>>, <<>>>>, <<<<5000>>, <<7>>>> }

NextTimer ==
    \/ TickIn(TimerInstants)
    \/ \E w \in TimerWords : SetWord(w)
    \/ ResetRound
    \/ \E ms \in AddTimeRequests : BoostAddTime(ms)
    \/ \E x \in PromptRequests : BoostPrompt(x)
    \/ \E r \in UpdateTimerRequests : UpdateTimer(r[1], r[2])

SpecTimer == Init /\ [][NextTimer]_vars

\* Polls: option lists in both orders, one whose first option is not in
\* normalized form ("Classic"), and one that is too short; a 500 ms
\* duration, so that the auto-close falls due within the instants; votes
\* for either mode by either viewer, 700 ms apart or less.
PollOptionLists ==
    { <<CLASSIC, RAPID>>, <<RAPID, CLASSIC>>,
      <<<<"C", "l", "a", "s", "s", "i", "c">>, RAPID>>, <<CLASSIC>> }

PollDurations == { 500 }

PollInstants == { T0 + 500, T0 + 700, T0 + 1200 }

PollTexts == { CLASSIC, RAPID }

NextPoll ==
    \/ TickIn(PollInstants)
    \/ \E u \in UserIds, t \in PollTexts : Chat(u, NicknameOf(u), t)
    \/ \E m \in ValidModes : SetMode(m)
    \/ \E o \in PollOptionLists, d \in PollDurations : PollStart(o, d)
    \/ PollStop
    \/ \E k \in 1..MaxTimers : PollTimeout(k)

SpecPoll == Init /\ [][NextPoll]_vars

\* Polls during which the admin leaves the mode alone, so that the mode
\* when a poll closes is the mode from before that poll.
NextTie ==
    \/ TickIn(PollInstants)
    \/ \E u \in UserIds, t \in PollTexts : Chat(u, NicknameOf(u), t)
    \/ \E m \in ValidModes : pollState = <<>> /\ SetMode(m)
    \/ \E o \in PollOptionLists, d \in PollDurations : PollStart(o, d)
    \/ PollStop
    \/ \E k \in 1..MaxTimers : PollTimeout(k)

SpecTie == Init /\ [][NextTie]_vars

\* The viewer store: rounds of one word that either viewer can win, guesses
\* 700 ms apart so that one viewer reaches 4 wins, viewers who change
\* their nickname, and the bulk reset.
UsersWords == { <<"c", "a", "t">> }

UsersTexts == { <<"c", "a", "t">>, <<"c", "o", "t">> }

UsersInstants == { T0 + 700, T0 + 1400, T0 + 2100 }

\* The nicknames a viewer chats under: their id, or a changed name.
UsersNicknames(userId) == { NicknameOf(userId), "guest" }

NextUsers ==
    \/ TickIn(UsersInstants)
    \/ \E u \in UserIds, t \in UsersTexts :
          \E n \in UsersNicknames(u) : Chat(u, n, t)
    \/ \E w \in UsersWords : SetWord(w)
    \/ UsersReset

SpecUsers == Init /\ [][NextUsers]_vars

\* The admin requests, each with a body the route accepts and one it
\* rejects, with and without a secret, a round and a poll.
AdminWords == { <<"c", "a", "t">>, <<>> }

AdminModes == { CLASSIC, RAPID, <<"x">> }

AdminPositions == { <<"1">>, <<>> }

AdminAddTimes == { 10000, 0 }

AdminPrompts == { 5000 }

AdminTimers == { <<<<30000>>, <<>>>>, <<<<0 - 1>>, <<>>>> }

AdminOptionLists == { <<CLASSIC, RAPID>>, <<CLASSIC>> }

NextAdmin ==
    \/ TickIn({T0 + 500})
    \/ \E w \in AdminWords : SetWord(w)
    \/ ResetRound
    \/ StartReading
    \/ StopReading
    \/ \E m \in AdminModes : SetMode(m)
    \/ RevealWord
    \/ \E p \in AdminPositions : RevealLetters(p)
    \/ \E i \in 0..Len(revealedPositions) : BoostRevealLetter(i)
    \/ BoostRevealWord
    \/ \E ms \in AdminAddTimes : BoostAddTime(ms)
    \/ \E x \in AdminPrompts : BoostPrompt(x)
    \/ \E r \in AdminTimers : UpdateTimer(r[1], r[2])
    \/ \E o \in AdminOptionLists : PollStart(o, 500)
    \/ PollStop
    \/ \E k \in 1..MaxTimers : PollTimeout(k)

SpecAdmin == Init /\ [][NextAdmin]_vars

\* One chat message on every axis at once: the secret "rapid" is also a
\* poll option, so a message can be a correct guess and a vote; "classic"
\* is a vote and a wrong guess; "radio" is a wrong guess that agrees with
\* the secret at three positions.  Reading is switched on and off, in both
\* modes.
ChatWords == { RAPID }

ChatTexts == { RAPID, CLASSIC, <<"r", "a", "d", "i", "o">> }

NextChat ==
    \/ TickIn({T0 + 700})
    \/ \E u \in UserIds, t \in ChatTexts : Chat(u, NicknameOf(u), t)
    \/ \E w \in ChatWords : SetWord(w)
    \/ StartReading
    \/ StopReading
    \/ \E m \in ValidModes : SetMode(m)
    \/ PollStart(<<CLASSIC, RAPID>>, 500)
    \/ PollStop
    \/ \E k \in 1..MaxTimers : PollTimeout(k)

SpecChat == Init /\ [][NextChat]_vars

\* The chat source: connect requests with and without a room, whose
\* connect() resolves or rejects, the events of an open connection, and
\* the disconnect request, around a round that is being read.
StartRooms == { <<r>> : r \in Rooms } \cup { <<>> }

ConnWords == { <<"c", "a", "t">> }

NextConn ==
    \/ \E r \in StartRooms : Start(r)
    \/ \E i \in 1..MaxSessions : ConnectResolved(i)
    \/ \E i \in 1..MaxSessions : ConnectRejected(i)
    \/ \E i \in 1..MaxSessions : SessionError(i)
    \/ \E i \in 1..MaxSessions : SessionStreamEnd(i)
    \/ \E i \in 1..MaxSessions : SessionDisconnected(i)
    \/ Stop
    \/ \E w \in ConnWords : SetWord(w)

SpecConn == Init /\ [][NextConn]_vars

\* The leaderboard: the server starts with a viewer store of up to
\* MaxBoardUsers records (as loadUsers() reads it from users.json), whose
\* win counts run through 0..3 in several patterns, ties included; overlays
\* connect, a viewer wins, the store is reset.
MaxBoardUsers == 12

BoardIds == <<"v01", "v02", "v03", "v04", "v05", "v06", "v07", "v08", "v09",
              "v10", "v11", "v12", "v13", "v14">>

BoardStore(n, a, b) ==
    [k \in 1..n |->
       [userId |-> BoardIds[k], display_name |-> BoardIds[k],
        wins_total |-> (a * k + b) % 4,
        tier |-> computeTier((a * k + b) % 4)]]

BoardStores ==
    { BoardStore(n, a, b) : n \in 0..MaxBoardUsers, a \in 0..3, b \in 0..3 }

InitBoard ==
    /\ now = T0
    /\ isRunning = FALSE
    /\ secretWordRaw = <<>>
    /\ secretWordNorm = <<>>
    /\ winner = <<>>
    /\ lastWinAt = 0
    /\ roundStartedAt = 0
    /\ roundDurationMs = DefaultRoundMs
    /\ revealedPositions = <<>>
    /\ users \in BoardStores
    /\ gameMode = CLASSIC
    /\ pollState = <<>>
    /\ pollTimers = <<>>
    /\ userLastMsgAt = [u \in UserIds |-> 0]
    /\ ttConnection = 0
    /\ connectedRoom = <<>>
    /\ sessions = <<>>
    /\ echoAt = [u \in UserIds |-> 0]
    /\ ev = [op |-> "init"]
    /\ res = 0
    /\ out = <<>>

NextBoard ==
    \/ Bootstrap
    \/ SetWord(<<"c", "a", "t">>)
    \/ Chat("alice", "alice", <<"c", "a", "t">>)
    \/ UsersReset

SpecBoard == InitBoard /\ [][NextBoard]_vars

\* The disconnect request in the middle of a round: a secret that can be
\* won, rapid mode, a poll, and a chat source that is connected (once) or
\* not.
PauseWords == { <<"C", "a", "t", "!">> }

PauseTexts == { <<"c", "a", "t">> }

NextPause ==
    \/ TickIn({T0 + 700})
    \/ \E u \in UserIds, t \in PauseTexts : Chat(u, NicknameOf(u), t)
    \/ \E w \in PauseWords : SetWord(w)
    \/ SetMode(RAPID)
    \/ PollStart(<<CLASSIC, RAPID>>, 500)
    \/ \E k \in 1..MaxTimers : PollTimeout(k)
    \/ \E r \in Rooms : sessions = <<>> /\ Start(<<r>>)
    \/ ConnectResolved(1)
    \/ Stop

SpecPause == Init /\ [][NextPause]_vars

\* One round under everything that can happen to it: chat in either mode,
\* reveal requests and boosts, timer adjustments, the reading toggle and a
\* poll.  The secrets: plain, and one precomposed Hangul syllable.
MonoWords == { <<"c", "a", "t">>, <<"HAN">> }

MonoTexts == { <<"c", "a", "t">>, <<"c", "o", "t">>, <<"HA">> }

NextMono ==
    \/ TickIn({T0 + 700})
    \/ \E t \in MonoTexts : Chat("alice", "alice", t)
    \/ \E w \in MonoWords : SetWord(w)
    \/ ResetRound
    \/ StartReading
    \/ StopReading
    \/ \E m \in ValidModes : SetMode(m)
    \/ RevealWord
    \/ RevealLetters(<<"2">>)
    \/ \E i \in 0..Len(revealedPositions) : BoostRevealLetter(i)
    \/ BoostRevealWord
    \/ BoostAddTime(10000)
    \/ BoostPrompt(5000)
    \/ UpdateTimer(<<30000>>, <<>>)
    \/ pollTimers = <<>> /\ PollStart(<<CLASSIC, RAPID>>, 500)
    \/ PollStop
    \/ \E k \in 1..MaxTimers : PollTimeout(k)

SpecMono == Init /\ [][NextMono]_vars

\* One round that is never replaced: the word is set once and then guessed
\* by either viewer before and after the highlight of a win has run out.
RewinWords == { <<"C", "a", "t", "!">> }

RewinTexts == { <<"c", "a", "t">>, <<"c", "o", "t">> }

NextRewin ==
    \/ Tick
    \/ \E u \in UserIds, t \in RewinTexts : Chat(u, NicknameOf(u), t)
    \/ \E w \in RewinWords : secretWordRaw = <<>> /\ SetWord(w)
    \/ StartReading
    \/ StopReading
    \/ \E m \in ValidModes : SetMode(m)

SpecRewin == Init /\ [][NextRewin]_vars

\* The rapid position lock on secrets whose raw and normalized forms differ
\* in length: punctuation inside the word (removed by normalization) and a
\* precomposed Hangul syllable (three code units after normalization), with
\* guesses that are wrong but agree with the secret at some index.
LockWords == { <<"c", "!", "t">>, <<"HAN">> }

LockTexts == { <<"x", "t">>, <<"c", "t">>, <<"HA">> }

NextLock ==
    \/ TickIn({T0 + 700})
    \/ \E u \in UserIds, t \in LockTexts : Chat(u, NicknameOf(u), t)
    \/ \E w \in LockWords : SetWord(w)
    \/ \E m \in ValidModes : SetMode(m)

SpecLock == Init /\ [][NextLock]_vars

\* Polls under a clock that keeps running and an event loop that runs the
\* timers that are due: polls of 500 ms, started early enough for their end
\* to fall within the instants, with votes, manual stops and auto-closes.
LiveInstants == { T0 + 500, T0 + 1000 }

LivePollMs == 500

NextLive ==
    \/ TickIn(LiveInstants)
    \/ \E u \in UserIds : Chat(u, NicknameOf(u), RAPID)
    \/ now + LivePollMs <= T0 + 1000 /\ PollStart(<<CLASSIC, RAPID>>, LivePollMs)
    \/ PollStop
    \/ \E k \in 1..MaxTimers : PollTimeout(k)

\* Time passes, and a timer that is due gets to run.
SpecLive ==
    /\ Init
    /\ [][NextLive]_vars
    /\ WF_vars(TickIn(LiveInstants))
    /\ WF_vars(\E k \in 1..MaxTimers : PollTimeout(k))

---------------------------------------------------------------------------
(* Properties                                                              *)

IsChatEcho(b) == b.type = "chat"

\* The chat echoes among the broadcasts o of one handler.
ChatEchoes(o) == SelectSeq(o, IsChatEcho)

\* The message was accepted: it was judged and echoed.
Accepted(o) == ChatEchoes(o) # <<>>

JudgedCorrect(o) == Accepted(o) /\ ChatEchoes(o)[1].isCorrect

WinnerAnnounced(o) == \E k \in 1..Len(o) : o[k].type = "winner"

\* The win count of a viewer, 0 when the store has no record of them.
WinsOf(us, userId) ==
    IF UserIndex(us, userId) = 0 THEN 0
    ELSE us[UserIndex(us, userId)].wins_total

\* The tier the thresholds 0 / 1 / 2 / 3+ give a win count.
TierOfCount(n) ==
    CASE n = 0 -> "none" [] n = 1 -> "red" [] n = 2 -> "gold"
      [] n >= 3 -> "platinum"

\* C1: rate limiting.  A chat event of a viewer is accepted (echoed) only
\* if it comes at least 700 ms after the last accepted event of that
\* viewer, and every event that comes 700 ms or more after it is accepted.
C1_RateLimit ==
    [][ev'.op = "chat" =>
         /\ Accepted(out') => now' - echoAt[ev'.userId] >= 700
         /\ now' - echoAt[ev'.userId] >= 700 => Accepted(out')
         /\ Accepted(out') => /\ Len(ChatEchoes(out')) = 1
                              /\ ChatEchoes(out')[1].userId = ev'.userId
                              /\ ChatEchoes(out')[1].ts = now']_vars

\* C1 witness: an event 500 ms after the viewer's last accepted one has
\* been dropped.
C1_Witness ==
    /\ ev.op = "chat"
    /\ out = <<>>
    /\ now - echoAt[ev.userId] = 500

\* C2: a chat event dropped by the rate limiter emits no broadcast and
\* leaves the ledger, the reveal state, the poll, the winner record, the
\* viewer store and everything else as it was.
C2_DroppedNoEffect ==
    [][(ev'.op = "chat" /\ now - userLastMsgAt[ev'.userId] < 700) =>
         /\ out' = <<>>
         /\ UNCHANGED <<userLastMsgAt, revealedPositions, pollState, winner,
                        users>>
         /\ UNCHANGED <<now, isRunning, secretWordRaw, secretWordNorm,
                        lastWinAt, roundStartedAt, roundDurationMs, gameMode,
                        pollTimers, echoAt>>]_vars

\* C2 witness: a dropped message that names an option of the running poll,
\* from a viewer who has not voted, in rapid mode with reading on.
C2_Witness ==
    /\ ev.op = "chat"
    /\ out = <<>>
    /\ ev.text = RAPID
    /\ pollState # <<>>
    /\ ev.userId \notin pollState[1].voters
    /\ gameMode = RAPID
    /\ isRunning
    /\ secretWordNorm # <<>>

\* C3: the correctness an accepted chat event is judged is exactly:
\* reading enabled, a secret set, highlight not active, and the normalized
\* guess equal to the normalized secret.
C3_Judge ==
    [][(ev'.op = "chat" /\ Accepted(out')) =>
         (ChatEchoes(out')[1].isCorrect
            <=> /\ isRunning
                /\ secretWordNorm # <<>>
                /\ ~(winner # <<>> /\ now - winner[1].at < 60000)
                /\ normalize(ev'.text) = secretWordNorm)]_vars

\* C3 witness: a guess that differs from the raw secret and from its
\* normalized form has been judged correct.
C3_Witness ==
    /\ ev.op = "chat"
    /\ JudgedCorrect(out)
    /\ ev.text # secretWordRaw
    /\ ev.text # secretWordNorm

\* C4: after a message judged correct, the winner record names that
\* viewer, guess and timestamp, every position is revealed (the mask is the
\* raw secret), and the viewer's win count is one more than before, with
\* the tier of the new count.
C4_OnCorrect ==
    [][(ev'.op = "chat" /\ JudgedCorrect(out')) =>
         LET u == ev'.userId
             k == UserIndex(users', u)
         IN /\ winner' # <<>>
            /\ winner'[1].userId = u
            /\ winner'[1].guess = ev'.text
            /\ winner'[1].at = now'
            /\ Len(revealedPositions') = Len(secretWordRaw')
            /\ \A i \in 1..Len(revealedPositions') : revealedPositions'[i]
            /\ MaskOf(secretWordRaw', revealedPositions') = secretWordRaw'
            /\ k # 0
            /\ users'[k].wins_total = WinsOf(users, u) + 1
            /\ users'[k].tier = TierOfCount(users'[k].wins_total)]_vars

\* C4 witness: a viewer has just won for the second time.
C4_Witness ==
    /\ ev.op = "chat"
    /\ JudgedCorrect(out)
    /\ WinsOf(users, ev.userId) = 2
    /\ getMaskedWord = secretWordRaw
    /\ secretWordRaw # secretWordNorm

\* C5: while a winner record exists and less than 60000 ms have passed
\* since its timestamp, no chat event is judged correct; so a winner
\* announcement made while a winner record exists (no set-word since the
\* last announcement) comes at least 60000 ms after that record.
C5_Highlight ==
    [][ev'.op = "chat" =>
         /\ (winner # <<>> /\ now - winner[1].at < 60000)
               => (~JudgedCorrect(out') /\ ~WinnerAnnounced(out'))
         /\ (WinnerAnnounced(out') /\ winner # <<>>)
               => now' - winner[1].at >= 60000]_vars

\* C5 witness: reading is on and another viewer sends the secret 700 ms
\* after the win; the guess is judged incorrect.
C5_Witness ==
    /\ ev.op = "chat"
    /\ Accepted(out)
    /\ ~JudgedCorrect(out)
    /\ isRunning
    /\ normalize(ev.text) = secretWordNorm
    /\ winner # <<>>
    /\ winner[1].userId # ev.userId
    /\ now - winner[1].at = 700

Max(a, b) == IF a > b THEN a ELSE b

\* C6: in rapid mode with reading on and a secret set, an accepted guess
\* that is not correct reveals exactly the indices below the shorter
\* normalized length at which guess and secret agree; every other position
\* reads as before.
C6_PositionLock ==
    [][(/\ ev'.op = "chat"
        /\ Accepted(out')
        /\ ~JudgedCorrect(out')
        /\ gameMode = RAPID
        /\ isRunning
        /\ secretWordNorm # <<>>) =>
         LET g == normalize(ev'.text)
             shorter == Min(Len(g), Len(secretWordNorm))
             top == Max(shorter, Max(Len(revealedPositions),
                                     Len(revealedPositions')))
         IN \A i \in 0..(top - 1) :
                Revealed(revealedPositions', i)
                  <=> \/ Revealed(revealedPositions, i)
                      \/ (i < shorter /\ g[i + 1] = secretWordNorm[i + 1])]_vars

\* C6 witness: secret "cat", guess "cot" in rapid mode: positions 0 and 2
\* are revealed, position 1 is not.
C6_Witness ==
    /\ ev.op = "chat"
    /\ ev.text = <<"c", "o", "t">>
    /\ Accepted(out)
    /\ gameMode = RAPID
    /\ secretWordNorm = <<"c", "a", "t">>
    /\ revealedPositions = <<TRUE, FALSE, TRUE>>
    /\ getMaskedWord = <<"c", "_", "t">>

\* C7: in classic mode a chat event that is not judged correct leaves the
\* reveal state and the mask unchanged.
C7_ClassicNoReveal ==
    [][(ev'.op = "chat" /\ gameMode = CLASSIC /\ ~JudgedCorrect(out')) =>
         /\ revealedPositions' = revealedPositions
         /\ MaskOf(secretWordRaw', revealedPositions')
              = MaskOf(secretWordRaw, revealedPositions)]_vars

\* C7 witness: classic mode, reading on, a guess that agrees with the
\* secret in positions 0 and 2 was accepted and the mask is still hidden.
C7_Witness ==
    /\ ev.op = "chat"
    /\ ev.text = <<"c", "o", "t">>
    /\ Accepted(out)
    /\ gameMode = CLASSIC
    /\ isRunning
    /\ secretWordNorm = <<"c", "a", "t">>
    /\ winner = <<>>
    /\ getMaskedWord = <<"_", "_", "_", "_">>

\* C8: the reveal state has one entry per code unit of the raw secret
\* (none when no secret is set).
C8_RevealLength == Len(revealedPositions) = Len(secretWordRaw)

\* A token names the index k when it is the decimal numeral of k.
IsNumeral(tok) == tok # <<>> /\ \A j \in 1..Len(tok) : tok[j] \in Digits

TokenNames(tok, k) == IsNumeral(tok) /\ DigitsPrefix(tok, 0) = k

\* C9: with a secret set and an all-hidden mask, reveal-positions shows the
\* raw character at exactly the 1-based in-range indices its tokens name,
\* and "_" elsewhere; tokens that are out of range or not numerals are
\* ignored.
C9_RevealPositions ==
    [][(/\ ev'.op = "reveal-letters"
        /\ res' = 200
        /\ secretWordNorm # <<>>
        /\ \A k \in 1..Len(secretWordRaw) : getMaskedWord[k] = "_") =>
         LET toks == Split(ev'.positions)
         IN MaskOf(secretWordRaw', revealedPositions')
              = [k \in 1..Len(secretWordRaw) |->
                   IF \E j \in 1..Len(toks) : TokenNames(toks[j], k)
                   THEN secretWordRaw[k] ELSE "_"]]_vars

\* C10: whenever reading is enabled a secret is set (secretSet is true).
C10_ReadingNeedsSecret == isRunning => secretWordNorm # <<>>

\* The broadcasts of type t among the broadcasts o of one handler.
OfType(o, t) == SelectSeq(o, LAMBDA b : b.type = t)

\* C11: after an accepted set-word, whatever the state before, reading is
\* on, the reveal state is all-false with one entry per code unit of the new
\* raw secret, no winner is recorded and the highlight is inactive, the
\* round clock is restarted at the current instant with a total of 20000 ms
\* (so 20000 ms remain), and exactly one round broadcast is sent: a
\* "started" one whose mask is one placeholder per code unit.
C11_SetWord ==
    [][(ev'.op = "set-word" /\ res' = 200) =>
         /\ isRunning'
         /\ secretWordRaw' = ev'.word
         /\ revealedPositions' = [k \in 1..Len(ev'.word) |-> FALSE]
         /\ winner' = <<>>
         /\ ~HighlightActive'
         /\ roundStartedAt' = now'
         /\ roundDurationMs' = 20000
         /\ timeLeftMs' = 20000
         /\ Len(out') = 1
         /\ out'[1].type = "round"
         /\ out'[1].status = "started"
         /\ out'[1].maskedWord = [k \in 1..Len(ev'.word) |-> "_"]
         /\ getMaskedWord' = out'[1].maskedWord]_vars

\* A word whose raw and normalized lengths differ is accepted after a
\* round that some viewer won.
C11_Witness ==
    /\ ev.op = "set-word"
    /\ res = 200
    /\ Len(secretWordRaw) # Len(secretWordNorm)
    /\ \E k \in 1..Len(users) : users[k].wins_total > 0
    /\ revealedPositions # <<>>

\* C12: after reset-round, from any state, reading is off, no secret is
\* set, the reveal state and the mask are empty, no winner is recorded, and
\* the remaining time is reported as 0 (by the broadcast and by the state
\* snapshot).  While no secret is set, only set-word sets one, and every
\* accepted guess is judged incorrect: no win is counted or announced.
C12_ResetRound ==
    [][/\ ev'.op = "reset-round" =>
            /\ res' = 200
            /\ ~isRunning'
            /\ secretWordRaw' = <<>>
            /\ secretWordNorm' = <<>>
            /\ revealedPositions' = <<>>
            /\ getMaskedWord' = <<>>
            /\ winner' = <<>>
            /\ timeLeftMs' = 0
            /\ OfType(out', "round") =
                 <<[type |-> "round", status |-> "reset",
                    maskedWord |-> <<>>, timeLeftMs |-> 0]>>
       /\ (secretWordNorm = <<>> /\ ev'.op # "set-word") =>
            secretWordNorm' = <<>>
       /\ (secretWordNorm = <<>> /\ ev'.op = "chat") =>
            /\ ~JudgedCorrect(out')
            /\ ~WinnerAnnounced(out')
            /\ winner' = winner
            /\ \A u \in UserIds : WinsOf(users', u) = WinsOf(users, u)]_vars

\* After a round that a viewer won was reset, a guess that normalizes to
\* the discarded secret is accepted and judged incorrect.
C12_Witness ==
    /\ ev.op = "chat"
    /\ Accepted(out)
    /\ ~JudgedCorrect(out)
    /\ normalize(ev.text) = <<"c", "a", "t">>
    /\ secretWordNorm = <<>>
    /\ roundStartedAt = 0
    /\ \E k \in 1..Len(users) : users[k].wins_total > 0

\* The timeLeftMs of the "timer_updated" round broadcast among o.
AnnouncedTimeLeft(o) == OfType(o, "round")[1].timeLeftMs

\* C13: a successful add-time of delta ms, e ms into a round of total
\* duration T, makes the total duration T + delta and leaves the start
\* instant alone; the remaining time at that instant, as broadcast and as
\* the state snapshot reports it, is max(0, T + delta - e).
C13_AddTime ==
    [][(ev'.op = "boost/add-time" /\ res' = 200) =>
         LET e == now - roundStartedAt
             T == roundDurationMs
             delta == ev'.ms
         IN /\ roundDurationMs' = T + delta
            /\ roundStartedAt' = roundStartedAt
            /\ Len(OfType(out', "round")) = 1
            /\ OfType(out', "round")[1].status = "timer_updated"
            /\ AnnouncedTimeLeft(out') = Max(0, T + delta - e)
            /\ timeLeftMs' = Max(0, T + delta - e)]_vars

\* The stated case: 10000 ms added 5000 ms into a 20000 ms round leave
\* 25000 ms.
C13_Witness ==
    /\ ev.op = "boost/add-time"
    /\ res = 200
    /\ ev.ms = 10000
    /\ now - roundStartedAt = 5000
    /\ roundDurationMs = 30000
    /\ AnnouncedTimeLeft(out) = 25000
    /\ timeLeftMs = 25000

\* The remaining time an update-timer request r asks for: its ms, or 1000
\* times its seconds when it carries no ms.
AskedMs(r) == IF r.ms # <<>> THEN r.ms[1] ELSE r.seconds[1] * 1000

\* C14: a successful update-timer asking for ms >= 0, e ms into the round
\* (also after the timer ran out), sets the total duration to e + ms, and
\* the remaining time at that instant, as broadcast and as the state
\* snapshot reports it, is ms.
C14_UpdateTimer ==
    [][(ev'.op = "update-timer" /\ res' = 200) =>
         LET e == now - roundStartedAt
             ms == AskedMs(ev')
         IN /\ ms >= 0
            /\ roundDurationMs' = e + ms
            /\ roundStartedAt' = roundStartedAt
            /\ Len(OfType(out', "round")) = 1
            /\ OfType(out', "round")[1].status = "timer_updated"
            /\ AnnouncedTimeLeft(out') = ms
            /\ timeLeftMs' = ms]_vars

\* 30 seconds are asked for 35000 ms into a round, more than the round's
\* initial duration: the total becomes 65000 ms.
C14_Witness ==
    /\ ev.op = "update-timer"
    /\ res = 200
    /\ ev.seconds = <<30>>
    /\ now - roundStartedAt = 35000
    /\ roundDurationMs = 65000
    /\ timeLeftMs = 30000

\* The delta a time-extension request asks for.
AskedDelta(r) == IF r.op = "boost/add-time" THEN r.ms ELSE r.extraTimeMs

\* C15: an add-time boost or a prompt boost fails, and leaves the round
\* clock (start instant and total duration) unchanged, when no round is
\* active or when the delta it asks for is not greater than 0; no
\* successful extension decreases the total duration.
C15_ExtensionGuards ==
    [][ev'.op \in {"boost/add-time", "boost/prompt"} =>
         /\ (secretWordNorm = <<>> \/ roundStartedAt = 0
               \/ AskedDelta(ev') <= 0) =>
              /\ res' = 400
              /\ roundStartedAt' = roundStartedAt
              /\ roundDurationMs' = roundDurationMs
         /\ res' = 200 => roundDurationMs' >= roundDurationMs]_vars

\* C16: a poll/start while a poll is active fails, leaves that poll
\* (question, options, tallies, voters, end timestamp) as it is, schedules
\* no auto-close and announces no poll; a poll/start with fewer than 2
\* options while no poll is active fails and leaves no poll active.  There
\* is never more than one poll, and a poll is created only from no poll.
C16_PollStart ==
    [][/\ ev'.op = "poll/start" =>
            /\ pollState # <<>> =>
                 /\ res' = 400
                 /\ pollState' = pollState
                 /\ pollTimers' = pollTimers
                 /\ out' = <<>>
            /\ (pollState = <<>> /\ Len(ev'.options) < 2) =>
                 /\ res' = 400
                 /\ pollState' = <<>>
                 /\ pollTimers' = pollTimers
                 /\ out' = <<>>
       /\ Len(pollState') <= 1
       /\ OfType(out', "pollStart") # <<>> => pollState = <<>>]_vars

\* A poll/start was refused while a poll that already has a vote is active.
C16_Witness ==
    /\ ev.op = "poll/start"
    /\ res = 400
    /\ Len(ev.options) >= 2
    /\ pollState # <<>>
    /\ pollState[1].voters # {}
    /\ pollState[1].options # ev.options

\* The text matches an option of poll p under the one equality rule: its
\* normalized form equals the normalized form of the option.
MatchesOption(p, text) ==
    \E k \in 1..Len(p.options) : normalize(text) = normalize(p.options[k])

\* C17: an accepted chat message is counted as a vote (the viewer joins the
\* voters of the poll) if and only if a poll is active, the viewer has not
\* voted in it, and the normalized text equals the normalized form of one
\* of its options; otherwise the poll is unchanged.
C17_VoteCounted ==
    [][(ev'.op = "chat" /\ Accepted(out')) =>
         IF /\ pollState # <<>>
            /\ ev'.userId \notin pollState[1].voters
            /\ MatchesOption(pollState[1], ev'.text)
         THEN /\ pollState' # <<>>
              /\ pollState'[1].voters = pollState[1].voters \cup {ev'.userId}
         ELSE pollState' = pollState]_vars

\* The sum of the tallies t over the options in S.
RECURSIVE SumTallies(_, _)
SumTallies(t, S) ==
    IF S = {} THEN 0
    ELSE LET o == CHOOSE x \in S : TRUE
         IN t[o] + SumTallies(t, S \ {o})

\* C18: whenever a poll is active the sum of its tallies equals the number
\* of its voters, and an accepted message of a viewer who has already voted
\* in it changes neither a tally nor the voters.
C18_OneVote ==
    [][/\ pollState' # <<>> =>
            SumTallies(pollState'[1].tallies, DOMAIN pollState'[1].tallies)
              = Cardinality(pollState'[1].voters)
       /\ (/\ ev'.op = "chat"
           /\ pollState # <<>>
           /\ ev'.userId \in pollState[1].voters) =>
            pollState' = pollState]_vars

\* A viewer who has voted sends, accepted, the text of an option nobody
\* voted for: it is not counted.
C18_Witness ==
    /\ ev.op = "chat"
    /\ Accepted(out)
    /\ pollState # <<>>
    /\ ev.userId \in pollState[1].voters
    /\ ev.text \in DOMAIN pollState[1].tallies
    /\ pollState[1].tallies[ev.text] = 0

\* Option o has a tally strictly greater than that of every other option.
StrictMax(t, o) == \A q \in DOMAIN t : q # o => t[o] > t[q]

\* A poll was closed by the handler whose broadcasts are o.
PollClosed(o) == OfType(o, "pollEnd") # <<>>

\* C19: when a poll is closed and no option has a strictly greatest tally
\* (a tie for the maximum, all-zero tallies included), the game mode after
\* the close is the mode from before the poll, whichever mode that was and
\* in whichever order the options are listed.
C19_TieKeepsMode ==
    [][(/\ PollClosed(out')
        /\ \A o \in DOMAIN pollState[1].tallies :
              ~StrictMax(pollState[1].tallies, o)) =>
         gameMode' = gameMode]_vars

\* C20: when a poll is closed and one option has a tally strictly greater
\* than every other option's, that option is announced as the winner (by
\* the pollEnd and the state broadcasts) and becomes the game mode, first
\* or last in the option list.
C20_StrictMaxWins ==
    [][PollClosed(out') =>
         \A o \in DOMAIN pollState[1].tallies :
            StrictMax(pollState[1].tallies, o) =>
              /\ OfType(out', "pollEnd")[1].winner = o
              /\ OfType(out', "pollEnd")[1].tallies = pollState[1].tallies
              /\ OfType(out', "state") = <<[type |-> "state", mode |-> o]>>
              /\ gameMode' = o
              /\ pollState' = <<>>]_vars

\* A poll was closed by its auto-close with both votes for "rapid", and
\* "rapid" is the mode.
C20_Witness ==
    /\ ev.op = "poll/timeout"
    /\ PollClosed(out)
    /\ OfType(out, "pollEnd")[1].tallies[RAPID] = 2
    /\ OfType(out, "pollEnd")[1].tallies[CLASSIC] = 0
    /\ OfType(out, "pollEnd")[1].winner = RAPID
    /\ gameMode = RAPID

\* C21: a poll-end broadcast is emitted only by a handler that finds a poll
\* active and leaves none, and then exactly once, so no poll instance gets
\* two of them however manual stop and auto-close interleave; a manual stop
\* or an auto-close that runs while no poll is active emits nothing and
\* leaves the game mode as it is.
C21_GuardedClose ==
    [][/\ PollClosed(out') =>
            /\ Len(OfType(out', "pollEnd")) = 1
            /\ pollState # <<>>
            /\ pollState' = <<>>
       /\ (ev'.op \in {"poll/stop", "poll/timeout"} /\ pollState = <<>>) =>
            /\ out' = <<>>
            /\ gameMode' = gameMode
            /\ pollState' = <<>>]_vars

\* The auto-close of a poll that was stopped by hand fires while no poll is
\* active.
C21_Witness ==
    /\ ev.op = "poll/timeout"
    /\ out = <<>>
    /\ pollState = <<>>

\* C22: an auto-close acts only on the poll it was scheduled for, so an
\* auto-close never closes a poll before that poll's end timestamp.
C22_OwnAutoClose ==
    [][(ev'.op = "poll/timeout" /\ PollClosed(out')) =>
         now >= pollState[1].endsAt]_vars

\* C23: the game mode is "classic" or "rapid".
C23_ModeEnumerated == gameMode \in {CLASSIC, RAPID}

\* C24: the tier of every viewer record is the tier of its win count:
\* 0 wins none, 1 red, 2 gold, 3 or more platinum.
C24_TierOfWins ==
    \A k \in 1..Len(users) : users[k].tier = TierOfCount(users[k].wins_total)

\* A viewer has won a fourth time and is still platinum.
C24_Witness ==
    \E k \in 1..Len(users) :
       users[k].wins_total = 4 /\ users[k].tier = "platinum"

\* The number of winner announcements for userId among the broadcasts o.
WinsAnnounced(o, userId) ==
    Cardinality({k \in 1..Len(o) :
                   o[k].type = "winner" /\ o[k].userId = userId})

\* C30: the bulk reset leaves the store empty; every other handler keeps
\* every record of the store, and changes a viewer's win count by exactly
\* the number of winner announcements it makes for that viewer, so that
\* between two bulk resets the count never decreases and equals the number
\* of announcements since the last reset.
C30_ViewerStore ==
    [][IF ev'.op = "users/reset"
       THEN users' = <<>>
       ELSE \A u \in UserIds :
              /\ UserIndex(users, u) # 0 => UserIndex(users', u) # 0
              /\ WinsOf(users', u) = WinsOf(users, u) + WinsAnnounced(out', u)
              /\ WinsOf(users', u) >= WinsOf(users, u)]_vars

\* The store was emptied by a bulk reset after a win, and a viewer has been
\* recorded again since, without a win.
C30_Witness ==
    /\ winner # <<>>
    /\ Len(users) = 1
    /\ users[1].userId # winner[1].userId
    /\ users[1].wins_total = 0
    /\ users[1].display_name = "guest"

\* The broadcasts among o that carry a mask.
HasMask(b) == "maskedWord" \in DOMAIN b

MaskBearing(o) == SelectSeq(o, HasMask)

\* The rendering of the reveal state over the raw secret: the raw character
\* where the position is revealed, the placeholder elsewhere.
Rendering ==
    [k \in 1..Len(secretWordRaw) |->
       IF k <= Len(revealedPositions) /\ revealedPositions[k]
       THEN secretWordRaw[k] ELSE "_"]

\* C26: a handler that changes the secret or the reveal state broadcasts a
\* mask, and the last mask a handler broadcasts is the rendering of the
\* reveal state over the raw secret as the handler leaves them.
C26_MaskBroadcast ==
    [][/\ (\/ secretWordRaw' # secretWordRaw
           \/ secretWordNorm' # secretWordNorm
           \/ revealedPositions' # revealedPositions) =>
            MaskBearing(out') # <<>>
       /\ MaskBearing(out') # <<>> =>
            MaskBearing(out')[Len(MaskBearing(out'))].maskedWord
              = Rendering']_vars

\* A wrong rapid-mode guess has locked a position, and the mask broadcast
\* with it shows that character and hides another.
C26_Witness ==
    /\ ev.op = "chat"
    /\ Accepted(out)
    /\ ~JudgedCorrect(out)
    /\ OfType(out, "mask") # <<>>
    /\ \E k \in 1..Len(secretWordRaw) :
          OfType(out, "mask")[1].maskedWord[k] = secretWordRaw[k]
    /\ \E k \in 1..Len(secretWordRaw) :
          OfType(out, "mask")[1].maskedWord[k] = "_"

\* C25: an admin request that is answered with an error (status 400)
\* leaves the whole game state as it was and broadcasts nothing.
C25_RejectedNoEffect ==
    [][res' = 400 =>
         /\ out' = <<>>
         /\ UNCHANGED <<now, isRunning, secretWordRaw, secretWordNorm,
                        winner, lastWinAt, roundStartedAt, roundDurationMs,
                        revealedPositions, users, gameMode, pollState,
                        pollTimers, userLastMsgAt>>]_vars

\* A timer adjustment with an invalid amount is rejected while a round with
\* a revealed position and a poll are active.
C25_Witness ==
    /\ res = 400
    /\ ev.op = "update-timer"
    /\ secretWordNorm # <<>>
    /\ roundStartedAt # 0
    /\ pollState # <<>>
    /\ \E k \in 1..Len(revealedPositions) : revealedPositions[k]

\* The event names of the broadcasts o, in the order they were sent.
TypesOf(o) == [k \in 1..Len(o) |-> o[k].type]

\* The position of the first chat echo among the broadcasts o.
EchoPosition(o) == CHOOSE p \in 1..Len(o) : o[p].type = "chat"

\* C28: a chat event that passes the rate limit produces exactly one chat
\* echo, which carries isCorrect exactly when the message is announced as
\* the winner.  Before the echo come only the poll update of the message
\* (present exactly when the message changed the poll) and then its rapid-mode
\* mask; after the echo comes nothing when the message is incorrect, and the
\* revealed mask, the winner announcement, the viewer update and the
\* leaderboard, in that order, when it is correct.
C28_ChatOrder ==
    [][(ev'.op = "chat" /\ now - userLastMsgAt[ev'.userId] >= 700) =>
         /\ Len(ChatEchoes(out')) = 1
         /\ LET p == EchoPosition(out')
                before == SubSeq(TypesOf(out'), 1, p - 1)
                after == SubSeq(TypesOf(out'), p + 1, Len(out'))
                echo == out'[p]
            IN /\ echo.userId = ev'.userId
               /\ echo.text = ev'.text
               /\ echo.isCorrect = WinnerAnnounced(out')
               /\ before \in {<<>>, <<"pollUpdate">>, <<"mask">>,
                              <<"pollUpdate", "mask">>}
               /\ (pollState' # pollState) = (OfType(out', "pollUpdate") # <<>>)
               /\ IF echo.isCorrect
                  THEN /\ after = <<"mask", "winner", "userUpdate",
                                    "leaderboard">>
                       /\ before \in {<<>>, <<"pollUpdate">>}
                       /\ out'[p + 1].maskedWord = secretWordRaw
                       /\ out'[p + 2].userId = ev'.userId
                       /\ out'[p + 3].userId = ev'.userId
                  ELSE after = <<>>]_vars

\* One message is a vote and the correct guess: its broadcasts are the poll
\* update, the echo, the mask, the winner, the viewer update, the
\* leaderboard.
C28_Witness ==
    /\ ev.op = "chat"
    /\ TypesOf(out) = <<"pollUpdate", "chat", "mask", "winner", "userUpdate",
                        "leaderboard">>

\* C29: while reading is off, a chat event changes neither the secret, nor
\* the reveal state, nor the winner record, nor any viewer's win count, in
\* either mode; if it passes the rate limit it is echoed once, as
\* incorrect, and no winner is announced.
C29_PausedChat ==
    [][(ev'.op = "chat" /\ ~isRunning) =>
         /\ UNCHANGED <<secretWordRaw, secretWordNorm, revealedPositions,
                        winner, lastWinAt, isRunning>>
         /\ \A u \in UserIds : WinsOf(users', u) = WinsOf(users, u)
         /\ ~WinnerAnnounced(out')
         /\ now - userLastMsgAt[ev'.userId] >= 700 =>
              /\ Len(ChatEchoes(out')) = 1
              /\ ~ChatEchoes(out')[1].isCorrect]_vars

\* With reading off in rapid mode, a message equal to the secret is echoed
\* as incorrect and counted as a vote; nothing is revealed.
C29_Witness ==
    /\ ev.op = "chat"
    /\ ~isRunning
    /\ gameMode = RAPID
    /\ secretWordNorm = normalize(ev.text)
    /\ Accepted(out)
    /\ ~JudgedCorrect(out)
    /\ OfType(out, "pollUpdate") # <<>>
    /\ \A k \in 1..Len(revealedPositions) : ~revealedPositions[k]

\* C27: an error of the chat source, the failure of the initial connect
\* included, is broadcast as a system-status event, and the admin request
\* is not answered with a failure.
C27_SourceFailure ==
    [][ev'.op \in {"start/rejected", "session/error"} =>
         /\ OfType(out', "system") # <<>>
         /\ res' < 400]_vars

\* C31: every started poll is eventually closed, with a poll-end broadcast:
\* no poll stays active forever, whether or not it is stopped by hand.
C31_PollCloses ==
    (pollState # <<>>) ~> (PollClosed(out) /\ pollState = <<>>)

\* A poll that got a vote and was not stopped by hand has been closed by an
\* auto-close.
C31_Witness ==
    /\ ev.op = "poll/timeout"
    /\ PollClosed(out)
    /\ pollState = <<>>
    /\ pollTimers = <<>>
    /\ OfType(out, "pollEnd")[1].tallies[RAPID] >= 1

\* C32: the leaderboard derived from the viewer store holds only records
\* of the store with at least one win, each viewer at most once, at most 10
\* of them, in order of non-increasing win count; it is empty when no
\* viewer has a win.
C32_Leaderboard ==
    LET lb == computeLeaderboard(users) IN
    /\ Len(lb) <= 10
    /\ \A k \in 1..Len(lb) :
          /\ lb[k].wins_total >= 1
          /\ \E j \in 1..Len(users) : users[j] = lb[k]
          /\ \A l \in 1..Len(lb) : l # k => lb[l].userId # lb[k].userId
    /\ \A k \in 1..(Len(lb) - 1) : lb[k].wins_total >= lb[k + 1].wins_total
    /\ (\A j \in 1..Len(users) : users[j].wins_total = 0) => lb = <<>>

\* An overlay connects while more than 10 viewers have a win: the
\* leaderboard it is sent has 10 entries.
C32_Witness ==
    /\ ev.op = "connection"
    /\ Cardinality({j \in 1..Len(users) : users[j].wins_total >= 1}) > 10
    /\ Len(out[1].leaderboard) = 10
    /\ out[1].leaderboard[1].wins_total > out[1].leaderboard[10].wins_total

C34_StatusConsistent ==
    /\ connectedRoom # <<>> <=>
           /\ ttConnection # 0
           /\ ttConnection = Len(sessions)
           /\ sessions[ttConnection].status = "connected"
    /\ \A i \in 1..Len(sessions) : sessions[i].handlers <= 1

\* C35: the admin disconnect request turns the reading flag off, drops the
\* connection, and leaves the secret, the reveal state, the round clock, the
\* winner record, the mode, the poll and the viewer store as they were; it
\* answers ok and broadcasts nothing, no round status included.
C35_StopFrame ==
    [][ev'.op = "stop" =>
         /\ ~isRunning'
         /\ ttConnection' = 0
         /\ connectedRoom' = <<>>
         /\ res' = 200
         /\ out' = <<>>
         /\ UNCHANGED <<secretWordRaw, secretWordNorm, revealedPositions,
                        roundStartedAt, roundDurationMs, winner, lastWinAt,
                        gameMode, pollState, pollTimers, users, now>>]_vars

\* A round that was being read, with a winner, in rapid mode and with a poll
\* running, after the disconnect request: paused, everything else in place.
C35_Witness ==
    /\ ev.op = "stop"
    /\ ~isRunning
    /\ secretWordNorm # <<>>
    /\ roundStartedAt # 0
    /\ winner # <<>>
    /\ gameMode = RAPID
    /\ pollState # <<>>
    /\ out = <<>>

\* The positions of the raw secret that the reveal state rev shows.
Shown(raw, rev) == { k \in 1..Len(raw) : Revealed(rev, k - 1) }

C37_WinAgain ==
    [][/\ JudgedCorrect(out') =>
            /\ isRunning /\ isRunning'
            /\ secretWordRaw' = secretWordRaw
            /\ secretWordNorm' = secretWordNorm
            /\ roundStartedAt' = roundStartedAt
            /\ roundDurationMs' = roundDurationMs
       /\ ( /\ ev'.op = "chat"
            /\ Accepted(out')
            /\ isRunning
            /\ secretWordNorm # <<>>
            /\ winner # <<>>
            /\ now - lastWinAt >= winnerHighlightMs
            /\ normalize(ev'.text) = secretWordNorm ) =>
            /\ MaskOf(secretWordRaw, revealedPositions) = secretWordRaw
            /\ JudgedCorrect(out')
            /\ winner' # <<>>
            /\ winner'[1].userId = ev'.userId
            /\ winner'[1].at = now
            /\ winner' # winner
            /\ lastWinAt' = now
            /\ WinsOf(users', ev'.userId) = WinsOf(users, ev'.userId) + 1]_vars

\* The second win of one round, 60500 ms after the first.
C37_Witness ==
    /\ ev.op = "chat"
    /\ JudgedCorrect(out)
    /\ isRunning
    /\ roundStartedAt = T0
    /\ winner # <<>>
    /\ winner[1].at = T0 + 60500
    /\ WinsOf(users, "alice") + WinsOf(users, "bob") >= 2

\* C38: judging does not depend on the round clock.  The step on which the
\* remaining time reaches 0 changes nothing but the time and broadcasts
\* nothing (reading stays on); and with the remaining time at 0, an
\* accepted message equal to the secret, outside a highlight, is judged
\* correct and its sender is declared the winner.
C38_ClockIndependent ==
    [][/\ (timeLeftMs > 0 /\ timeLeftMs' = 0 /\ roundStartedAt' # 0) =>
            /\ UNCHANGED <<roundVars, users, gameMode, pollVars,
                           userLastMsgAt, connVars>>
            /\ out' = <<>>
       /\ ( /\ ev'.op = "chat"
            /\ Accepted(out')
            /\ roundStartedAt # 0
            /\ timeLeftMs = 0
            /\ isRunning
            /\ secretWordNorm # <<>>
            /\ ~HighlightActive
            /\ normalize(ev'.text) = secretWordNorm ) =>
            /\ JudgedCorrect(out')
            /\ WinnerAnnounced(out')
            /\ winner' # <<>>
            /\ winner'[1].userId = ev'.userId
            /\ winner'[1].at = now
            /\ isRunning']_vars

\* The first win of a round comes 40 s after its clock ran out.
C38_Witness ==
    /\ ev.op = "chat"
    /\ JudgedCorrect(out)
    /\ roundStartedAt # 0
    /\ timeLeftMs = 0
    /\ now - roundStartedAt > roundDurationMs
    /\ isRunning
    /\ winner # <<>>
    /\ winner[1].at = now
    /\ WinsOf(users, "alice") + WinsOf(users, "bob") = 1

\* C39: every handler that changes the leaderboard derived from the viewer
\* store, display names included, broadcasts a leaderboard, and the last
\* one it broadcasts is the leaderboard of the store it leaves.
C39_LeaderboardFresh ==
    [][computeLeaderboard(users') # computeLeaderboard(users) =>
         /\ OfType(out', "leaderboard") # <<>>
         /\ LET b == OfType(out', "leaderboard")
            IN b[Len(b)].leaderboard = computeLeaderboard(users')]_vars

\* C40: a chat message that is not a correct guess reveals a position of the
\* raw secret only if the raw character at that position, normalized, is
\* the character of the normalized guess at that index: the mask never
\* shows a raw character that the guess did not match.
C40_LockMatches ==
    [][(ev'.op = "chat" /\ Accepted(out') /\ ~JudgedCorrect(out')) =>
         \A k \in Shown(secretWordRaw', revealedPositions')
                    \ Shown(secretWordRaw, revealedPositions) :
             /\ k <= Len(normalize(ev'.text))
             /\ normalize(<<secretWordRaw[k]>>) = <<normalize(ev'.text)[k]>>]_vars

=============================================================================
